---- MODULE Spec2Model ----
(***************************************************************************)
(* Momentum: the task registry (js/tasks.js TaskManager) of a page, the    *)
(* localStorage keys it persists to and the reminder timers it arms; the   *)
(* StorageManager and its momentum_data document; the dashboard functions  *)
(* of js/app.js (streak, day rollover); the task reminders, the alarms    *)
(* and the daily summary of the NotificationManager (js/notifications.js); *)
(* and the TaskManager of the day planner in the same file, with the       *)
(* remote store of a signed-in user.                                       *)
(*                                                                         *)
(* Time is counted in minutes since the epoch of the model; a calendar     *)
(* day is DayLen minutes long and the date string 'YYYY-MM-DD' of an       *)
(* instant is its day number (the local time zone is UTC).  A time of day  *)
(* 'HH:MM' is its minute within the day.                                   *)
(***************************************************************************)
EXTENDS Integers, Sequences, FiniteSets, TLC

\* ---------------------------------------------------------------- bounds
MaxTasks == 1        \* tasks in the registry list (Spec)
MaxPair == 2         \* tasks in the registry list (SpecPair, SpecSkip)
MaxCreated == 4      \* tasks in the registry list (SpecCreate)
MaxSkips == 1        \* entries of the skip bank (Spec, SpecPair)
MaxSkipBank == 2     \* entries of the skip bank (SpecSkip)
MaxTicks == 1        \* clock steps
TickStep == 5        \* minutes the clock advances per step
DayLen == 10         \* minutes per calendar day of the model
MaxHandles == 1      \* setTimeout handles handed out per page session
RandRes == 2         \* distinct values Math.random() takes
MaxDocTasks == 2     \* tasks of the document (SpecStore)
MaxReflections == 2  \* reflections of the document (SpecStore)
Tight == 2           \* records a nearly full medium still accepts, plus one
Roomy == 9           \* records an empty medium accepts, plus one
MaxStreak == 2       \* the streak a caller of setStreak passes (SpecStats)
MaxMonths == 1       \* months that pass (SpecStats)
MaxDays == 2         \* last calendar day the clock reaches (SpecApp, SpecDaily)
MaxAppTasks == 2     \* tasks of momentum_tasks (SpecApp, SpecDaily)
MaxReminders == 2    \* setTimeout handles handed out per page (SpecNotify)
MaxAlarmHandles == 7 \* setTimeout handles handed out per page (SpecAlarm)
MaxPlanned == 2      \* tasks the form of the day planner creates (SpecPlanner)
MaxCompletes == 2    \* completions that score (SpecPlanner)
UsageTotal == 2      \* records that fill the estimated total of the medium
MaxAlarmDays == 1    \* last calendar day the clock reaches (SpecAlarm)

\* ------------------------------------------------------- program values
Null == -1                  \* null
NaN == -2                   \* Invalid Date / a time or date that does not parse
NoDate == -3                \* taskData.date left undefined by the caller
UnknownId == -4             \* an id no task carries
NoTimer == 0                \* task.notificationTimeoutId absent
notificationOffset == 5     \* parseInt(settings.notificationTime) || 5
DefaultDuration == 30       \* taskData.duration || 30
MustDoLimit == 3            \* "Maximum 3 must-do tasks per day"
MinDuration == 1            \* task.duration < 1
MaxDuration == 1440         \* task.duration > 1440
MinMood == 1                \* reflection.mood < 1
MaxMood == 5                \* reflection.mood > 5
CompressDays == 30          \* thirtyDaysAgo.getDate() - 30
EmptyTime == -5             \* the value '' of the task-time input left empty
alarmId == 101              \* 'daily-wakeup'
snoozeId == 102             \* 'snooze-alarm'
summaryId == 103            \* 'daily-summary'
DefaultWakeup == 3          \* settings.wakeupTime || '07:00', minute of the day
SummaryTime == 8            \* summaryTime.setHours(21, 0, 0, 0), minute of the day
SnoozeDelay == 5            \* 5 * 60 * 1000 ms
TaskPoints == 10            \* currentScore + 10
SignedIn == 1               \* auth.getUserId() of a signed-in user

VARIABLES
    now,          \* Date.now(), minutes
    granted,      \* Notification.permission === 'granted'
    tasks,        \* TaskManager.tasks (in memory)
    ls,           \* localStorage: the legacy keys and momentum_data
    timers,       \* armed setTimeout timers of the page
    nextHandle,   \* next handle setTimeout returns
    notificationManager,  \* the NotificationManager of the page
    presented,    \* history: the reminders shown and the items reported missed
    cloud,        \* the sign-in of the page and the tasks of the remote store
    last          \* the operation that ran last, its arguments and return value

vars ==
    <<now, granted, tasks, ls, timers, nextHandle, notificationManager,
      presented, cloud, last>>

\* ------------------------------------------------------------- helpers
Today == now \div DayLen

ValidTime(t) == t \in 0..(DayLen - 1)
ValidDate(d) == d >= 0

RECURSIVE IndexFrom(_, _, _)
IndexFrom(seq, taskId, i) ==
    IF i > Len(seq) THEN 0
    ELSE IF seq[i].id = taskId THEN i
    ELSE IndexFrom(seq, taskId, i + 1)

\* Array.prototype.findIndex(t => t.id == taskId), 1-based, 0 when not found
findIndex(seq, taskId) == IndexFrom(seq, taskId, 1)

RemoveAt(seq, i) == SubSeq(seq, 1, i - 1) \o SubSeq(seq, i + 1, Len(seq))

Objs(seq) == {seq[i].obj : i \in 1..Len(seq)}

\* identity of a newly created task object: the least one not in use
FreshObj(P) ==
    LET used == Objs(P.tasks) \cup Objs(P.ls.tasks) \cup {t.obj : t \in P.timers}
    IN CHOOSE n \in 1..(Cardinality(used) + 1) :
           n \notin used /\ \A m \in 1..(n - 1) : m \in used

\* the state an operation of the page works on
Page == [tasks |-> tasks, ls |-> ls, timers |-> timers, nextHandle |-> nextHandle]

Commit(P) ==
    /\ tasks' = P.tasks
    /\ ls' = P.ls
    /\ timers' = P.timers
    /\ nextHandle' = P.nextHandle

\* Object.assign(task, updates) / { ...task, ...updates }
Assign(task, updates) ==
    [f \in (DOMAIN task) \cup (DOMAIN updates) |->
        IF f \in DOMAIN updates THEN updates[f] ELSE task[f]]

\* ------------------------------------------------- js/tasks.js TaskManager
loadTasks(P) == [P EXCEPT !.tasks = P.ls.tasks]

saveTasks(P) ==
    [P EXCEPT !.ls.tasks = P.tasks, !.ls.keys = @ \cup {"momentum_tasks"}]

getTaskById(P, taskId) == findIndex(P.tasks, taskId)

getTasksByDate(list, date) ==
    LET targetDate == IF date = NoDate THEN Today ELSE date
        OnDate(task) == task.date = targetDate
    IN SelectSeq(list, OnDate)

\* the pending filter of getTasksByStatus
Pending(task) == ~task.completed /\ ~task.skipped

\* new Date(task.date) with setHours(hours, minutes, 0, 0)
taskDateTime(task) ==
    IF ValidDate(task.date) /\ ValidTime(task.time)
    THEN task.date * DayLen + task.time
    ELSE NaN

\* the task is the object at index i of P.tasks
scheduleTaskNotification(P, i) ==
    IF ~granted THEN P
    ELSE
        LET task == P.tasks[i]
            taskDate == taskDateTime(task)
            notificationTime == taskDate - notificationOffset
        IN IF taskDate # NaN /\ notificationTime > now
           THEN saveTasks([P EXCEPT
                    !.tasks[i].notificationTimeoutId = P.nextHandle,
                    !.timers = @ \cup {[handle |-> P.nextHandle,
                                        obj |-> task.obj,
                                        due |-> notificationTime]},
                    !.nextHandle = @ + 1])
           ELSE P

clearTaskNotification(P, taskId) ==
    LET i == getTaskById(P, taskId)
    IN IF i # 0 /\ P.tasks[i].notificationTimeoutId # NoTimer
       THEN saveTasks([P EXCEPT
                !.timers = {t \in @ : t.handle # P.tasks[i].notificationTimeoutId},
                !.tasks[i].notificationTimeoutId = NoTimer])
       ELSE P

\* a task that keeps the caller's undefined date
newTaskNoDefaultDate(P, taskData, rnd) ==
    [id |-> now * RandRes + rnd,
     obj |-> FreshObj(P),
     title |-> taskData.title,
     time |-> taskData.time,
     duration |-> DefaultDuration,
     mustDo |-> taskData.mustDo,
     notes |-> "",
     date |-> taskData.date,
     completed |-> FALSE,
     skipped |-> FALSE,
     skipReason |-> "",
     createdAt |-> now,
     completedAt |-> Null,
     notificationTimeoutId |-> NoTimer]

newTask(P, taskData, rnd) ==
    [id |-> now * RandRes + rnd,
     obj |-> FreshObj(P),
     title |-> taskData.title,
     time |-> taskData.time,
     duration |-> DefaultDuration,
     mustDo |-> taskData.mustDo,
     notes |-> "",
     date |-> IF taskData.date = NoDate THEN Today ELSE taskData.date,
     completed |-> FALSE,
     skipped |-> FALSE,
     skipReason |-> "",
     createdAt |-> now,
     completedAt |-> Null,
     notificationTimeoutId |-> NoTimer]

addTask(P, taskData, rnd) ==
    LET task == newTask(P, taskData, rnd)
        pushed == saveTasks([P EXCEPT !.tasks = Append(@, task)])
    IN [st |-> scheduleTaskNotification(pushed, Len(pushed.tasks)), ret |-> TRUE]

completeTask(P, taskId) ==
    LET i == getTaskById(P, taskId)
    IN IF i # 0
       THEN [st |-> clearTaskNotification(
                        saveTasks([P EXCEPT !.tasks[i].completed = TRUE,
                                            !.tasks[i].completedAt = now]),
                        taskId),
             ret |-> TRUE]
       ELSE [st |-> P, ret |-> FALSE]

\* a skip bank written without reading the stored one
addToSkipBankOverwrite(P, task, reason) ==
    [P EXCEPT !.ls.skip_bank = <<[taskId |-> task.id,
                                  taskTitle |-> task.title,
                                  reason |-> reason,
                                  date |-> Today,
                                  timestamp |-> now]>>,
              !.ls.keys = @ \cup {"momentum_skip_bank"}]

addToSkipBank(P, task, reason) ==
    [P EXCEPT !.ls.skip_bank = Append(@, [taskId |-> task.id,
                                          taskTitle |-> task.title,
                                          reason |-> reason,
                                          date |-> Today,
                                          timestamp |-> now]),
              !.ls.keys = @ \cup {"momentum_skip_bank"}]

skipTask(P, taskId, reason) ==
    LET i == getTaskById(P, taskId)
    IN IF i # 0
       THEN LET marked == saveTasks([P EXCEPT !.tasks[i].skipped = TRUE,
                                              !.tasks[i].skipReason = reason])
                cleared == clearTaskNotification(marked, taskId)
            IN [st |-> addToSkipBank(cleared, cleared.tasks[i], reason), ret |-> TRUE]
       ELSE [st |-> P, ret |-> FALSE]

\* splice(index, 1) without the index !== -1 test: -1 removes the last task
deleteTaskUnguarded(P, taskId) ==
    LET index == findIndex(P.tasks, taskId)
        at == IF index # 0 THEN index ELSE Len(P.tasks)
    IN IF Len(P.tasks) > 0
       THEN [st |-> clearTaskNotification(
                        saveTasks([P EXCEPT !.tasks = RemoveAt(@, at)]),
                        taskId),
             ret |-> TRUE]
       ELSE [st |-> P, ret |-> TRUE]

deleteTask(P, taskId) ==
    LET index == findIndex(P.tasks, taskId)
    IN IF index # 0
       THEN [st |-> clearTaskNotification(
                        saveTasks([P EXCEPT !.tasks = RemoveAt(@, index)]),
                        taskId),
             ret |-> TRUE]
       ELSE [st |-> P, ret |-> FALSE]

updateTask(P, taskId, updates) ==
    LET i == getTaskById(P, taskId)
    IN IF i # 0
       THEN LET assigned == saveTasks([P EXCEPT !.tasks[i] = Assign(@, updates)])
            IN [st |-> IF "time" \in DOMAIN updates \/ "date" \in DOMAIN updates
                       THEN scheduleTaskNotification(
                                clearTaskNotification(assigned, taskId), i)
                       ELSE assigned,
                ret |-> TRUE]
       ELSE [st |-> P, ret |-> FALSE]

\* ------------------------------------------------------------ localStorage
\* ls.keys: the keys that hold an item; ls.raw: those whose text is not JSON.
\* The field of a key that holds no item has the value it has below.
LegacyKeys ==
    {"momentum_tasks", "momentum_settings", "momentum_streak",
     "momentum_skip_bank", "momentum_last_activity", "momentum_current_quote"}

storageKey == "momentum_data"

version == "1.0.0"

NoSettings == [absent |-> TRUE]

\* getDefaultSettings(), three of its fields
getDefaultSettings ==
    [wakeupTime |-> "07:00", notificationTime |-> "5", timeFormat |-> "12h"]

\* the defaultSettings of loadUserData, two of its fields
defaultSettings == [wakeupTime |-> "07:00", notificationTime |-> "5"]

\* a quotient n / d of two integers, kept exact
Ratio(n, d) == [num |-> n, den |-> d]

\* the number 0 as a quotient
Zero == Ratio(0, 1)

\* the table of the reasons of a skip bank: reason -> number of entries
skipReasonsOf(bank) ==
    LET reasonOf(i) == IF "reason" \in DOMAIN bank[i] THEN bank[i].reason
                       ELSE "undefined"
    IN [r \in {reasonOf(i) : i \in 1..Len(bank)} |->
           Cardinality({i \in 1..Len(bank) : reasonOf(i) = r})]

\* initializeStatistics(), the fields updateStatistics recomputes from the
\* tasks, the streak and the skip bank
initializeStatistics ==
    [totalTasksCreated |-> 0, totalTasksCompleted |-> 0,
     totalTasksSkipped |-> 0, currentStreak |-> 0, longestStreak |-> 0,
     averageCompletionRate |-> Zero, skipReasons |-> skipReasonsOf(<<>>),
     lastUpdated |-> now]

\* data.broken: the fields of the document that are missing or do not have
\* the type validateData looks for; such a field has its value of NoData
DocFields ==
    {"tasks", "settings", "streak", "skipBank", "lastActivity",
     "reflections", "statistics"}

NoData ==
    [version |-> "", tasks |-> <<>>, settings |-> NoSettings, streak |-> 0,
     skipBank |-> <<>>, lastActivity |-> NoDate, currentQuote |-> Null,
     reflections |-> <<>>,
     statistics |-> [totalTasksCreated |-> 0, totalTasksCompleted |-> 0,
                     totalTasksSkipped |-> 0, currentStreak |-> 0,
                     longestStreak |-> 0, averageCompletionRate |-> Zero,
                     skipReasons |-> skipReasonsOf(<<>>), lastUpdated |-> 0],
     broken |-> {}]

EmptyStorage ==
    [keys |-> {}, raw |-> {}, tasks |-> <<>>, skip_bank |-> <<>>,
     settings |-> NoSettings, streak |-> 0, last_activity |-> NoDate,
     scheduled_notifications |-> <<>>, scheduled_alarms |-> <<>>,
     day_tasks |-> <<>>, dailyScore |-> 0, skippedTasks |-> <<>>,
     data |-> NoData]

\* a page of a guest whose delayed loadTasks() has not run; no task in the
\* remote store.  .snapshot is the answer to the query of a load in flight.
NoCloud ==
    [guest |-> TRUE, userId |-> Null, docs |-> <<>>, loading |-> "scheduled",
     snapshot |-> [ok |-> TRUE, docs |-> <<>>], nextId |-> 1]

\* the page has no NotificationManager, or one whose initialize() is at its
\* await: permission null, both maps empty, the alarm modal hidden and the
\* delayed setupDailyAlarm() / setupDailySummary() of the page not yet run
NoManager ==
    [permission |-> "null", scheduledNotifications |-> {}, awaiting |-> {},
     scheduledAlarms |-> {}, modal |-> FALSE, notification |-> FALSE,
     setup |-> FALSE]

\* ------------------------------------------- StorageManager: validation
\* typeof x === 'number': NaN is a number, null is not
IsNumber(x) == x # Null

\* validateTask, the checks
validateTask(task) ==
    /\ {"id", "title", "time", "date"} \subseteq DOMAIN task
    /\ task.title # ""
    /\ ValidTime(task.time)
    /\ ValidDate(task.date)

\* validateTask, "Validate duration range": every comparison with NaN is false
clampDuration(d) ==
    IF d = NaN THEN NaN
    ELSE IF d < MinDuration THEN MinDuration
    ELSE IF d > MaxDuration THEN MaxDuration
    ELSE d

\* validateTask, the task it leaves: "Set default values for optional fields"
taskDefaults(task) ==
    LET filled == Assign([mustDo |-> FALSE, completed |-> FALSE,
                          skipped |-> FALSE, skipReason |-> "",
                          createdAt |-> now, notes |-> ""], task)
        d == IF "duration" \notin DOMAIN task \/ ~IsNumber(task.duration)
             THEN DefaultDuration
             ELSE task.duration
    IN Assign(filled, [duration |-> clampDuration(d)])

validateSkipEntry(entry) ==
    /\ {"taskId", "taskTitle", "reason", "date", "timestamp"} \subseteq DOMAIN entry
    /\ ValidDate(entry.date)

validateReflection(reflection) ==
    /\ {"date", "mood", "achievements", "improvements"} \subseteq DOMAIN reflection
    /\ IsNumber(reflection.mood)
    /\ ~(reflection.mood # NaN /\ reflection.mood < MinMood)
    /\ ~(reflection.mood # NaN /\ reflection.mood > MaxMood)
    /\ ValidDate(reflection.date)

\* ------------------------------------------------ StorageManager: the store
\* The operations read and write localStorage S; cap is what the medium
\* accepts while the operation runs: setItem throws for a document of cap
\* records or more.
Size(data) == Len(data.tasks) + Len(data.skipBank) + Len(data.reflections)

\* JSON.stringify writes NaN as null
stringifyNumber(x) == IF x = NaN THEN Null ELSE x

stringifyTask(task) ==
    IF "duration" \in DOMAIN task
    THEN [task EXCEPT !.duration = stringifyNumber(@)]
    ELSE task

stringifyReflection(r) ==
    IF "mood" \in DOMAIN r THEN [r EXCEPT !.mood = stringifyNumber(@)] ELSE r

stringify(data) ==
    [data EXCEPT
        !.tasks = [i \in 1..Len(@) |-> stringifyTask(@[i])],
        !.reflections = [i \in 1..Len(@) |-> stringifyReflection(@[i])]]

\* getFullData() returns a document and not null
HasData(S) == storageKey \in S.keys /\ storageKey \notin S.raw

getFullData(S) == S.data

setItemData(S, data) ==
    [S EXCEPT !.data = stringify(data),
              !.keys = @ \cup {storageKey},
              !.raw = @ \ {storageKey}]

setFullData(S, data, cap) ==
    IF Size(data) < cap
    THEN [st |-> setItemData(S, data), ret |-> TRUE]
    ELSE [st |-> S, ret |-> FALSE]

initializeDefaultData(S, cap) ==
    setFullData(S, [version |-> version, tasks |-> <<>>,
                    settings |-> getDefaultSettings, streak |-> 0,
                    skipBank |-> <<>>, lastActivity |-> Today,
                    currentQuote |-> Null, reflections |-> <<>>,
                    statistics |-> initializeStatistics, broken |-> {}],
                cap).st

\* a removal that leaves the key TaskManager writes
removeLegacyKeysButTasks(S) ==
    [S EXCEPT !.keys = @ \ (LegacyKeys \ {"momentum_tasks"}),
              !.raw = @ \ LegacyKeys,
              !.skip_bank = <<>>, !.settings = NoSettings,
              !.streak = 0, !.last_activity = NoDate]

removeLegacyKeys(S) ==
    [S EXCEPT !.keys = @ \ LegacyKeys, !.raw = @ \ LegacyKeys,
              !.tasks = <<>>, !.skip_bank = <<>>, !.settings = NoSettings,
              !.streak = 0, !.last_activity = NoDate]

\* legacyData is keyed by key.replace('momentum_', ''): tasks, settings,
\* streak, skip_bank, last_activity, current_quote; newData reads
\* legacyData.skipBank, .lastActivity and .currentQuote, which are undefined
legacyNewData(S) ==
    [version |-> version,
     tasks |-> IF "momentum_tasks" \in S.keys THEN S.tasks ELSE <<>>,
     settings |-> IF "momentum_settings" \in S.keys THEN S.settings
                  ELSE getDefaultSettings,
     streak |-> IF "momentum_streak" \in S.keys THEN S.streak ELSE 0,
     skipBank |-> <<>>,
     lastActivity |-> Today,
     currentQuote |-> Null,
     reflections |-> <<>>,
     statistics |-> initializeStatistics,
     broken |-> {}]

\* threw: JSON.parse of a legacy value or setItem threw, nothing was written
migrateFromLegacyStorage(S, cap) ==
    LET hasLegacyData == S.keys \cap LegacyKeys # {}
        newData == legacyNewData(S)
    IN IF ~hasLegacyData THEN [st |-> S, threw |-> FALSE]
       ELSE IF S.keys \cap LegacyKeys \cap S.raw # {}
       THEN [st |-> S, threw |-> TRUE]
       ELSE IF ~(Size(newData) < cap)
       THEN [st |-> S, threw |-> TRUE]
       ELSE [st |-> removeLegacyKeys(setItemData(S, newData)), threw |-> FALSE]

\* validateData(): the filtered lists are written only if needsUpdate
validateData(S, cap) ==
    LET data == getFullData(S)
        needsUpdate == data.version # version \/ data.broken # {}
        Fix(f, default) == IF f \in data.broken THEN default ELSE data[f]
        valid == SelectSeq(Fix("tasks", <<>>), validateTask)
        cleaned ==
            [version |-> version,
             tasks |-> [i \in 1..Len(valid) |-> taskDefaults(valid[i])],
             settings |-> Fix("settings", getDefaultSettings),
             streak |-> Fix("streak", 0),
             skipBank |-> SelectSeq(Fix("skipBank", <<>>), validateSkipEntry),
             lastActivity |-> Fix("lastActivity", Today),
             currentQuote |-> data.currentQuote,
             reflections |-> SelectSeq(Fix("reflections", <<>>), validateReflection),
             statistics |-> Fix("statistics", initializeStatistics),
             broken |-> {}]
    IN IF needsUpdate THEN setFullData(S, cleaned, cap).st ELSE S

\* initialize(); threw: an exception left the constructor (validateData reads
\* data.version of the null that getFullData returned)
initialize(S, cap) ==
    LET m == migrateFromLegacyStorage(S, cap)
        d == IF HasData(m.st) THEN m.st ELSE initializeDefaultData(m.st, cap)
    IN IF m.threw THEN [st |-> m.st, threw |-> TRUE]
       ELSE IF ~HasData(d) THEN [st |-> d, threw |-> TRUE]
       ELSE [st |-> validateData(d, cap), threw |-> FALSE]

\* exportData('json'): the text of the document
exportData(S) ==
    IF HasData(S)
    THEN [kind |-> "object", value |-> stringify(getFullData(S))]
    ELSE [kind |-> "null", value |-> [broken |-> {}]]

\* a merge that prefers the existing data
importDataPreferExisting(S, jsonData, cap) ==
    IF jsonData.kind # "object" THEN [st |-> S, ret |-> FALSE]
    ELSE
        LET importedData == jsonData.value
            given == IF HasData(S) THEN {} ELSE (DOMAIN importedData) \ {"broken"}
            mergedData ==
                [f \in DOMAIN NoData |->
                    IF f = "version" THEN version
                    ELSE IF f = "broken" THEN IF HasData(S) THEN {} ELSE DocFields \ given
                    ELSE IF f \in given THEN importedData[f]
                    ELSE getFullData(S)[f]]
            written == setFullData(S, mergedData, cap).st
        IN IF ~HasData(written) THEN [st |-> written, ret |-> FALSE]
           ELSE [st |-> validateData(written, cap), ret |-> TRUE]

\* jsonData.kind: "object", or text that is no JSON ("corrupt") or no object
\* ("null"); jsonData.value.broken: its fields of a wrong type
importData(S, jsonData, cap) ==
    IF jsonData.kind # "object" THEN [st |-> S, ret |-> FALSE]
    ELSE
        LET importedData == jsonData.value
            existingData == IF HasData(S) THEN getFullData(S)
                            ELSE [NoData EXCEPT !.broken = DocFields]
            given == (DOMAIN importedData) \ {"broken"}
            wrong == IF "broken" \in DOMAIN importedData
                     THEN importedData.broken ELSE {}
            mergedData ==
                [f \in DOMAIN NoData |->
                    IF f = "version" THEN version
                    ELSE IF f = "broken"
                         THEN (existingData.broken \ given) \cup wrong
                    ELSE IF f \in wrong THEN NoData[f]
                    ELSE IF f \in given THEN importedData[f]
                    ELSE existingData[f]]
            written == setFullData(S, mergedData, cap).st
        IN IF ~HasData(written) THEN [st |-> written, ret |-> FALSE]
           ELSE [st |-> validateData(written, cap), ret |-> TRUE]

getTasks(S) == IF HasData(S) THEN getFullData(S).tasks ELSE <<>>

updateStatistics(S, cap) ==
    IF ~HasData(S) THEN [st |-> S, ret |-> FALSE]
    ELSE
        LET data == getFullData(S)
            Completed(t) == t.completed
            Skipped(t) == t.skipped
            completed == Len(SelectSeq(data.tasks, Completed))
            stats == [data.statistics EXCEPT
                         !.totalTasksCreated = Len(data.tasks),
                         !.totalTasksCompleted = completed,
                         !.totalTasksSkipped = Len(SelectSeq(data.tasks, Skipped)),
                         !.currentStreak = data.streak,
                         !.averageCompletionRate =
                             IF Len(data.tasks) > 0
                             THEN Ratio(completed * 100, Len(data.tasks))
                             ELSE @,
                         !.skipReasons = skipReasonsOf(data.skipBank),
                         !.lastUpdated = now]
        IN setFullData(S, [data EXCEPT !.statistics = stats], cap)

updateReflectionStatistics(S, cap) ==
    IF ~HasData(S) THEN [st |-> S, ret |-> FALSE]
    ELSE setFullData(S, [getFullData(S) EXCEPT !.statistics.lastUpdated = now], cap)

\* setTasks(tasks): data is read before updateStatistics() writes
setTasks(S, newTasks, cap) ==
    IF ~HasData(S) THEN [st |-> S, ret |-> FALSE]
    ELSE
        LET data == [getFullData(S) EXCEPT !.tasks = newTasks]
        IN setFullData(updateStatistics(S, cap).st, data, cap)

setSettings(S, settings, cap) ==
    IF ~HasData(S) THEN [st |-> S, ret |-> FALSE]
    ELSE setFullData(S, [getFullData(S) EXCEPT !.settings = Assign(@, settings)], cap)

\* then updateStatistics() if setTasks succeeded
thenUpdateStatistics(r, cap) ==
    IF r.ret THEN [st |-> updateStatistics(r.st, cap).st, ret |-> TRUE] ELSE r

\* StorageManager.addTask
storeAddTask(S, task, cap) ==
    IF ~validateTask(task) THEN [st |-> S, ret |-> FALSE]
    ELSE thenUpdateStatistics(
             setTasks(S, Append(getTasks(S), taskDefaults(task)), cap), cap)

\* StorageManager.updateTask
storeUpdateTask(S, taskId, updates, cap) ==
    LET index == findIndex(getTasks(S), taskId)
        merged == Assign(getTasks(S)[index], updates)
    IN IF index = 0 THEN [st |-> S, ret |-> FALSE]
       ELSE IF ~validateTask(merged) THEN [st |-> S, ret |-> FALSE]
       ELSE thenUpdateStatistics(
                setTasks(S, [getTasks(S) EXCEPT ![index] = taskDefaults(merged)], cap),
                cap)

\* StorageManager.deleteTask
storeDeleteTask(S, taskId, cap) ==
    LET Other(t) == t.id # taskId
        filteredTasks == SelectSeq(getTasks(S), Other)
    IN IF Len(filteredTasks) = Len(getTasks(S)) THEN [st |-> S, ret |-> FALSE]
       ELSE thenUpdateStatistics(setTasks(S, filteredTasks, cap), cap)

addReflection(S, reflection, cap) ==
    IF ~HasData(S) THEN [st |-> S, ret |-> FALSE]
    ELSE IF ~validateReflection(reflection) THEN [st |-> S, ret |-> FALSE]
    ELSE
        LET OtherDate(r) == r.date # reflection.date
            data == [getFullData(S) EXCEPT
                        !.reflections = Append(SelectSeq(@, OtherDate), reflection)]
        IN setFullData(updateReflectionStatistics(S, cap).st, data, cap)

setStreak(S, streak, cap) ==
    IF ~HasData(S) THEN [st |-> S, ret |-> FALSE]
    ELSE
        LET data == getFullData(S)
        IN setFullData(S, [data EXCEPT
                               !.streak = streak,
                               !.statistics.longestStreak =
                                   IF streak > @ THEN streak ELSE @],
                       cap)

\* a filter that lets every completed task go, whatever its age
keptByCompressAnyAge(task) ==
    ~(task.completed /\ "completedAt" \in DOMAIN task /\ task.completedAt # Null)

\* getStorageUsage().percent: Math.round(used / total * 100)
usagePercent(S) ==
    IF ~HasData(S) THEN 0
    ELSE (Size(getFullData(S)) * 200 + UsageTotal) \div (2 * UsageTotal)

\* compressData(), the filter: completed tasks whose completedAt is older
\* than CompressDays days (or is no date) go
keptByCompress(task) ==
    IF task.completed /\ "completedAt" \in DOMAIN task /\ task.completedAt # Null
    THEN task.completedAt # NaN /\ task.completedAt >= now - CompressDays * DayLen
    ELSE TRUE

\* compressData(); ret: the number of tasks it reports as removed
compressData(S, cap) ==
    LET stored == getTasks(S)
        compressedTasks == SelectSeq(stored, keptByCompress)
    IN IF Len(compressedTasks) < Len(stored)
       THEN [st |-> setTasks(S, compressedTasks, cap).st,
             ret |-> Len(stored) - Len(compressedTasks)]
       ELSE [st |-> S, ret |-> 0]

\* ---------------------------------------------------------------- inputs
TaskA == [title |-> "A", time |-> 5, date |-> NoDate, mustDo |-> FALSE]
TaskB == [title |-> "B", time |-> 0, date |-> 1, mustDo |-> FALSE]
TaskMust == [title |-> "M", time |-> 5, date |-> NoDate, mustDo |-> TRUE]
TaskBad == [title |-> "", time |-> NaN, date |-> NoDate, mustDo |-> FALSE]

RandomFractions == 0..(RandRes - 1)

Revert == [completed |-> FALSE]
Retime == [time |-> 5, date |-> 1]
Retitle == [title |-> ""]
Reid == [id |-> 0]

NotEnoughTime == "Not enough time"

\* what a specification draws the arguments of the operations from
Lifecycle ==
    [inputs |-> {TaskA, TaskB, TaskBad}, rnd |-> {0},
     updates |-> {Revert, Retime, Retitle, Reid}, reasons |-> {"", NotEnoughTime},
     maxTasks |-> MaxTasks, maxSkips |-> MaxSkips]

Pair ==
    [inputs |-> {TaskA, TaskB}, rnd |-> {0},
     updates |-> {Retime}, reasons |-> {NotEnoughTime},
     maxTasks |-> MaxPair, maxSkips |-> MaxSkips]

Skips ==
    [inputs |-> {TaskB}, rnd |-> {0},
     updates |-> {Revert}, reasons |-> {"", NotEnoughTime},
     maxTasks |-> MaxPair, maxSkips |-> MaxSkipBank]

Create ==
    [inputs |-> {TaskMust}, rnd |-> RandomFractions,
     updates |-> {}, reasons |-> {},
     maxTasks |-> MaxCreated, maxSkips |-> 0]

ArgIds == {tasks[i].id : i \in 1..Len(tasks)} \cup {UnknownId}

Result(op, taskId, reason, ret, obj) ==
    [op |-> op, id |-> taskId, reason |-> reason, ret |-> ret, obj |-> obj]

\* --------------------------------------------------------------- actions
Init ==
    /\ now = 0
    /\ granted \in BOOLEAN
    /\ tasks = <<>>
    /\ ls = EmptyStorage
    /\ timers = {}
    /\ nextHandle = 1
    /\ notificationManager = NoManager
    /\ presented = {}
    /\ cloud = NoCloud
    /\ last = Result("load", UnknownId, "", TRUE, 0)

Tick ==
    /\ now + TickStep <= MaxTicks * TickStep
    /\ now' = now + TickStep
    /\ last' = Result("tick", UnknownId, "", TRUE, 0)
    /\ UNCHANGED <<cloud, notificationManager, presented, granted, tasks, ls, timers, nextHandle>>

\* page load: the TaskManager constructor; the timers of the old page are gone
Reload ==
    /\ Commit(loadTasks([Page EXCEPT !.timers = {}, !.nextHandle = 1]))
    /\ last' = Result("load", UnknownId, "", TRUE, 0)
    /\ UNCHANGED <<cloud, notificationManager, presented, now, granted>>

\* an armed timer whose time has come runs its callback, showTaskNotification
Fire ==
    \E t \in timers :
        /\ now >= t.due
        /\ timers' = timers \ {t}
        /\ last' = Result("showTaskNotification", UnknownId, "", granted, t.obj)
        /\ UNCHANGED <<cloud, notificationManager, presented, now, granted, tasks, ls, nextHandle>>

AddTask(p) ==
    \E taskData \in p.inputs, rnd \in p.rnd :
        /\ Len(tasks) < p.maxTasks
        /\ LET r == addTask(Page, taskData, rnd)
           IN /\ r.st.nextHandle <= MaxHandles + 1
              /\ Commit(r.st)
              /\ last' = Result("addTask", r.st.tasks[Len(r.st.tasks)].id, "", r.ret, 0)
        /\ UNCHANGED <<cloud, notificationManager, presented, now, granted>>

CompleteTask ==
    \E taskId \in ArgIds :
        /\ LET r == completeTask(Page, taskId)
           IN /\ Commit(r.st)
              /\ last' = Result("completeTask", taskId, "", r.ret, 0)
        /\ UNCHANGED <<cloud, notificationManager, presented, now, granted>>

SkipTask(p) ==
    \E taskId \in ArgIds, reason \in p.reasons :
        /\ Len(ls.skip_bank) < p.maxSkips
        /\ LET r == skipTask(Page, taskId, reason)
           IN /\ Commit(r.st)
              /\ last' = Result("skipTask", taskId, reason, r.ret, 0)
        /\ UNCHANGED <<cloud, notificationManager, presented, now, granted>>

DeleteTask ==
    \E taskId \in ArgIds :
        /\ LET r == deleteTask(Page, taskId)
           IN /\ Commit(r.st)
              /\ last' = Result("deleteTask", taskId, "", r.ret, 0)
        /\ UNCHANGED <<cloud, notificationManager, presented, now, granted>>

UpdateTask(p) ==
    \E taskId \in ArgIds, updates \in p.updates :
        /\ LET r == updateTask(Page, taskId, updates)
           IN /\ r.st.nextHandle <= MaxHandles + 1
              /\ Commit(r.st)
              /\ last' = Result("updateTask", taskId, "", r.ret, 0)
        /\ UNCHANGED <<cloud, notificationManager, presented, now, granted>>

NextOn(p) ==
    \/ Tick
    \/ Reload
    \/ Fire
    \/ AddTask(p)
    \/ CompleteTask
    \/ SkipTask(p)
    \/ DeleteTask
    \/ UpdateTask(p)

Next == NextOn(Lifecycle)

\* one task, every argument
Spec == Init /\ [][Next]_vars

NextPair == NextOn(Pair)

\* two tasks
SpecPair == Init /\ [][NextPair]_vars

NextSkip == NextOn(Skips)

\* two tasks, two skips
SpecSkip == Init /\ [][NextSkip]_vars

NextCreate ==
    \/ AddTask(Create)
    \/ CompleteTask
    \/ DeleteTask

\* four must-do tasks created within one clock reading
SpecCreate == Init /\ [][NextCreate]_vars

\* ------------------------------------------------- StorageManager: inputs
StoreTask ==
    [id |-> 1, title |-> "A", time |-> 5, date |-> 0,
     completed |-> FALSE, skipped |-> FALSE]

StoreTaskDone ==
    [id |-> 2, title |-> "B", time |-> 0, date |-> 1,
     completed |-> TRUE, skipped |-> FALSE, duration |-> 45]

StoreTaskBad ==
    [id |-> 3, title |-> "", time |-> 5, date |-> 0,
     completed |-> FALSE, skipped |-> FALSE]

\* duration: null, NaN, below the range, above the range
Durations == {Null, NaN, 0, MaxDuration + 1}

StoreTasks == {StoreTask, StoreTaskDone, StoreTaskBad}

TimedTasks == {StoreTask} \cup {Assign(StoreTask, [duration |-> d]) : d \in Durations}

StoreUpdates == {[title |-> "C"], [title |-> ""]}

Reflection(date, mood) ==
    [date |-> date, mood |-> mood, achievements |-> "a", improvements |-> "i"]

Reflections ==
    {Reflection(0, 3), Reflection(0, 5), Reflection(1, NaN), Reflection(1, 0)}

SkipEntry ==
    [taskId |-> 1, taskTitle |-> "A", reason |-> NotEnoughTime,
     date |-> 0, timestamp |-> 0]

Imports ==
    {[kind |-> "corrupt", value |-> [broken |-> {}]],
     [kind |-> "null", value |-> [broken |-> {}]],
     [kind |-> "object",
      value |-> [version |-> "0.9.0", tasks |-> <<StoreTaskBad, StoreTask>>]],
     [kind |-> "object",
      value |-> [reflections |-> <<Reflection(0, 3), Reflection(0, 5)>>,
                 skipBank |-> <<SkipEntry>>]],
     [kind |-> "object", value |-> [broken |-> {"tasks"}]]}

Capacities == {0, Tight, Roomy}

\* ------------------------------------------------ StorageManager: actions
\* An operation of the store runs in a page whose new StorageManager() has
\* returned, so the document exists.
StoreStep(op, taskId, r) ==
    /\ ls' = r.st
    /\ last' = Result(op, taskId, "", r.ret, 0)

\* page load: new StorageManager()
StoreLoad ==
    \E cap \in Capacities :
        /\ LET r == initialize(ls, cap)
           IN StoreStep("initialize", UnknownId, [st |-> r.st, ret |-> ~r.threw])
        /\ UNCHANGED <<cloud, notificationManager, presented, now, granted, tasks, timers, nextHandle>>

\* page load of the dashboard: loadUserData()
loadUserData(S) ==
    [S EXCEPT
        !.keys = @ \cup {"momentum_settings", "momentum_tasks", "momentum_streak",
                         "momentum_skip_bank", "momentum_last_activity"},
        !.raw = IF "momentum_last_activity" \in S.keys THEN @
                ELSE @ \cup {"momentum_last_activity"},
        !.settings = IF "momentum_settings" \in S.keys THEN @ ELSE defaultSettings,
        !.last_activity = IF "momentum_last_activity" \in S.keys THEN @ ELSE Today]

LoadUserData ==
    /\ StoreStep("loadUserData", UnknownId, [st |-> loadUserData(ls), ret |-> TRUE])
    /\ UNCHANGED <<cloud, notificationManager, presented, now, granted, tasks, timers, nextHandle>>

StoreAddTask(inputs) ==
    \E task \in inputs, cap \in Capacities :
        /\ HasData(ls)
        /\ Len(getTasks(ls)) < MaxDocTasks
        /\ StoreStep("storeAddTask", task.id, storeAddTask(ls, task, cap))
        /\ UNCHANGED <<cloud, notificationManager, presented, now, granted, tasks, timers, nextHandle>>

StoreUpdateTask ==
    \E taskId \in {StoreTask.id, UnknownId}, updates \in StoreUpdates,
       cap \in Capacities :
        /\ HasData(ls)
        /\ StoreStep("storeUpdateTask", taskId,
                     storeUpdateTask(ls, taskId, updates, cap))
        /\ UNCHANGED <<cloud, notificationManager, presented, now, granted, tasks, timers, nextHandle>>

StoreDeleteTask ==
    \E taskId \in {StoreTask.id, StoreTaskDone.id, UnknownId}, cap \in Capacities :
        /\ HasData(ls)
        /\ StoreStep("storeDeleteTask", taskId, storeDeleteTask(ls, taskId, cap))
        /\ UNCHANGED <<cloud, notificationManager, presented, now, granted, tasks, timers, nextHandle>>

SetSettings ==
    \E cap \in Capacities :
        /\ HasData(ls)
        /\ StoreStep("setSettings", UnknownId,
                     setSettings(ls, [timeFormat |-> "24h"], cap))
        /\ UNCHANGED <<cloud, notificationManager, presented, now, granted, tasks, timers, nextHandle>>

AddReflection ==
    \E reflection \in Reflections, cap \in Capacities :
        /\ HasData(ls)
        /\ Len(ls.data.reflections) < MaxReflections
        /\ StoreStep("addReflection", UnknownId, addReflection(ls, reflection, cap))
        /\ UNCHANGED <<cloud, notificationManager, presented, now, granted, tasks, timers, nextHandle>>

ImportData ==
    \E jsonData \in Imports, cap \in Capacities :
        /\ HasData(ls)
        /\ StoreStep("importData", UnknownId, importData(ls, jsonData, cap))
        /\ UNCHANGED <<cloud, notificationManager, presented, now, granted, tasks, timers, nextHandle>>

\* the document goes to another device: exportData() here, importData() into
\* a store that new StorageManager() set up on an empty medium there
Transfer ==
    /\ HasData(ls)
    /\ StoreStep("transfer", UnknownId,
                 importData(initialize(EmptyStorage, Roomy).st, exportData(ls), Roomy))
    /\ UNCHANGED <<cloud, notificationManager, presented, now, granted, tasks, timers, nextHandle>>

NextStore ==
    \/ Tick
    \/ StoreLoad
    \/ StoreAddTask(StoreTasks)
    \/ StoreUpdateTask
    \/ StoreDeleteTask
    \/ SetSettings
    \/ AddReflection
    \/ ImportData
    \/ Transfer

\* the document and the operations of the store
SpecStore == Init /\ [][NextStore]_vars

Legacy ==
    [inputs |-> {TaskA}, rnd |-> {0},
     updates |-> {}, reasons |-> {NotEnoughTime},
     maxTasks |-> MaxTasks, maxSkips |-> MaxSkips]

NextLegacy ==
    \/ Tick
    \/ AddTask(Legacy)
    \/ SkipTask(Legacy)
    \/ LoadUserData
    \/ StoreLoad
    \/ AddReflection

\* the store next to the components that write the legacy keys
SpecLegacy == Init /\ [][NextLegacy]_vars

NextValidate ==
    \/ Tick
    \/ StoreLoad
    \/ StoreAddTask(TimedTasks)
    \/ StoreDeleteTask

\* tasks of every kind of duration
SpecValidate == Init /\ [][NextValidate]_vars

\* ----------------------------------------------- StorageManager: statistics
\* a task completed at minute 0
StoreTaskOld ==
    [id |-> 4, title |-> "O", time |-> 0, date |-> 0,
     completed |-> TRUE, skipped |-> FALSE, createdAt |-> 0, completedAt |-> 0]

StatsTasks == {StoreTask, StoreTaskOld}

StatsImports ==
    {[kind |-> "object", value |-> [tasks |-> <<StoreTask, StoreTaskOld>>]],
     [kind |-> "object", value |-> [skipBank |-> <<SkipEntry>>]]}

\* more than CompressDays days pass
MonthPasses ==
    /\ now < MaxMonths * (CompressDays + 1) * DayLen
    /\ now' = now + (CompressDays + 1) * DayLen
    /\ last' = Result("tick", UnknownId, "", TRUE, 0)
    /\ UNCHANGED <<cloud, notificationManager, presented, granted, tasks, ls, timers, nextHandle>>

\* window.setStoredTasks(tasks): the stored list without one of its tasks,
\* or with one more
SetTasks ==
    \E newTasks \in {RemoveAt(getTasks(ls), i) : i \in 1..Len(getTasks(ls))}
                     \cup {Append(getTasks(ls), t) : t \in StatsTasks},
       cap \in {Roomy} :
        /\ HasData(ls)
        /\ Len(newTasks) <= MaxDocTasks
        /\ StoreStep("setTasks", UnknownId, setTasks(ls, newTasks, cap))
        /\ UNCHANGED <<cloud, notificationManager, presented, now, granted, tasks, timers, nextHandle>>

SetStreak ==
    \E streak \in 0..MaxStreak, cap \in {0, Roomy} :
        /\ HasData(ls)
        /\ StoreStep("setStreak", streak, setStreak(ls, streak, cap))
        /\ UNCHANGED <<cloud, notificationManager, presented, now, granted, tasks, timers, nextHandle>>

CompressData ==
    \E cap \in {Roomy} :
        /\ HasData(ls)
        /\ LET r == compressData(ls, cap)
           IN StoreStep("compressData", r.ret, [st |-> r.st, ret |-> r.ret > 0])
        /\ UNCHANGED <<cloud, notificationManager, presented, now, granted, tasks, timers, nextHandle>>

StatsImport ==
    \E jsonData \in StatsImports, cap \in {Roomy} :
        /\ HasData(ls)
        /\ StoreStep("importData", UnknownId, importData(ls, jsonData, cap))
        /\ UNCHANGED <<cloud, notificationManager, presented, now, granted, tasks, timers, nextHandle>>

StatsDeleteTask ==
    \E taskId \in {StoreTask.id, StoreTaskOld.id}, cap \in {Roomy} :
        /\ HasData(ls)
        /\ StoreStep("storeDeleteTask", taskId, storeDeleteTask(ls, taskId, cap))
        /\ UNCHANGED <<cloud, notificationManager, presented, now, granted, tasks, timers, nextHandle>>

NextStats ==
    \/ MonthPasses
    \/ StoreLoad
    \/ StoreAddTask(StatsTasks)
    \/ StatsDeleteTask
    \/ SetTasks
    \/ CompressData
    \/ StatsImport

\* the statistics of the document
SpecStats == Init /\ [][NextStats]_vars

\* a document that carries a streak only, and one whose statistics are no
\* object
StreakImports ==
    {[kind |-> "object", value |-> [streak |-> MaxStreak]],
     [kind |-> "object", value |-> [broken |-> {"statistics"}]]}

StreakImport ==
    \E jsonData \in StreakImports, cap \in {Roomy} :
        /\ HasData(ls)
        /\ StoreStep("importData", UnknownId, importData(ls, jsonData, cap))
        /\ UNCHANGED <<cloud, notificationManager, presented, now, granted, tasks, timers, nextHandle>>

NextStreak ==
    \/ Tick
    \/ StoreLoad
    \/ SetStreak
    \/ StreakImport
    \/ StoreAddTask(StatsTasks)
    \/ StatsDeleteTask

\* the streak of the document and its high-water mark
SpecStreak == Init /\ [][NextStreak]_vars

\* ------------------------------------------- StorageManager: compression
StoreTaskSkipped ==
    [id |-> 5, title |-> "S", time |-> 0, date |-> 0,
     completed |-> FALSE, skipped |-> TRUE, createdAt |-> 0, skippedAt |-> 0]

\* completed on day 1: exactly CompressDays days old after MonthPasses
StoreTaskRecent ==
    [id |-> 6, title |-> "R", time |-> 0, date |-> 1,
     completed |-> TRUE, skipped |-> FALSE, createdAt |-> 0,
     completedAt |-> DayLen]

CompressTasks == {StoreTask, StoreTaskOld, StoreTaskSkipped, StoreTaskRecent}

CompressImports ==
    {[kind |-> "object",
      value |-> [skipBank |-> <<SkipEntry>>,
                 reflections |-> <<Reflection(0, 3)>>]]}

CompressImport ==
    \E jsonData \in CompressImports, cap \in {Roomy} :
        /\ HasData(ls)
        /\ StoreStep("importData", UnknownId, importData(ls, jsonData, cap))
        /\ UNCHANGED <<cloud, notificationManager, presented, now, granted, tasks, timers, nextHandle>>

\* DOMContentLoaded: the storage-usage check of the page
StorageCheck ==
    \E cap \in Capacities :
        /\ HasData(ls)
        /\ LET r == IF usagePercent(ls) > 80 /\ usagePercent(ls) > 90
                    THEN compressData(ls, cap)
                    ELSE [st |-> ls, ret |-> 0]
           IN /\ ls' = r.st
              /\ last' = Result("storageCheck", UnknownId, "", r.ret > 0, r.ret)
        /\ UNCHANGED <<cloud, notificationManager, presented, now, granted, tasks, timers, nextHandle>>

NextCompress ==
    \/ MonthPasses
    \/ StoreLoad
    \/ StoreAddTask(CompressTasks)
    \/ StatsDeleteTask
    \/ CompressImport
    \/ StorageCheck

\* the retention compression of the document at page load
SpecCompress == Init /\ [][NextCompress]_vars

\* ------------------------------------------------------------- js/app.js
\* The functions of app.js read and write the legacy keys of localStorage S.
\* momentum_last_activity holds the bare date string, which is no JSON text.

\* the time carryOverTasks writes back: new Date() with setHours(hours,
\* minutes), formatted HH:MM; hours and minutes of a string that is no HH:MM
\* are NaN and the text written is 'NaN:NaN'
shiftedTime(time) == IF ValidTime(time) THEN time ELSE NaN

carryOverTasks(S) ==
    LET yesterdayStr == Today - 1
    IN [S EXCEPT
           !.tasks = [i \in 1..Len(@) |->
                         IF @[i].date = yesterdayStr /\ Pending(@[i])
                         THEN [@[i] EXCEPT !.date = Today, !.time = shiftedTime(@)]
                         ELSE @[i]],
           !.keys = @ \cup {"momentum_tasks"}]

checkNewDay(S) ==
    IF "momentum_last_activity" \in S.keys /\ S.last_activity = Today THEN S
    ELSE [carryOverTasks(S) EXCEPT
             !.last_activity = Today,
             !.keys = @ \cup {"momentum_last_activity"},
             !.raw = @ \cup {"momentum_last_activity"}]

updateStreak(S, taskCompleted) ==
    LET streak == S.streak
        gain == IF taskCompleted THEN 1 ELSE 0
        next == IF "momentum_last_activity" \notin S.keys THEN gain
                ELSE IF S.last_activity = Today
                THEN (IF streak > 1 THEN streak ELSE 1)
                ELSE IF S.last_activity = Today - 1 THEN streak + gain
                ELSE gain
    IN [S EXCEPT
           !.streak = next,
           !.last_activity = Today,
           !.keys = @ \cup {"momentum_streak", "momentum_last_activity"},
           !.raw = @ \cup {"momentum_last_activity"}]

\* the task the task form submits
formTask(title, time) ==
    [id |-> now, title |-> title, time |-> time, duration |-> DefaultDuration,
     mustDo |-> FALSE, notes |-> "", date |-> Today,
     completed |-> FALSE, skipped |-> FALSE, skipReason |-> ""]

\* addTask(task) of app.js
appAddTask(S, task) ==
    [S EXCEPT !.tasks = Append(@, task), !.keys = @ \cup {"momentum_tasks"}]

\* completeTask(taskId) of app.js
appCompleteTask(S, taskId) ==
    LET taskIndex == findIndex(S.tasks, taskId)
    IN IF taskIndex # 0
       THEN [st |-> updateStreak(
                        [S EXCEPT
                            !.tasks[taskIndex] =
                                Assign(@, [completed |-> TRUE, completedAt |-> now]),
                            !.keys = @ \cup {"momentum_tasks"}],
                        TRUE),
             ret |-> TRUE]
       ELSE [st |-> S, ret |-> FALSE]

\* skipTask(taskId, reason) of app.js
appSkipTask(S, taskId, reason) ==
    LET taskIndex == findIndex(S.tasks, taskId)
    IN IF taskIndex # 0
       THEN [st |-> [S EXCEPT
                        !.tasks[taskIndex] =
                            Assign(@, [skipped |-> TRUE, skipReason |-> reason]),
                        !.skip_bank = Append(@, [taskId |-> taskId,
                                                 taskTitle |-> S.tasks[taskIndex].title,
                                                 reason |-> reason,
                                                 date |-> Today,
                                                 timestamp |-> now]),
                        !.keys = @ \cup {"momentum_tasks", "momentum_skip_bank"}],
             ret |-> TRUE]
       ELSE [st |-> S, ret |-> FALSE]

\* initializeApp(): loadUserData(), then checkNewDay()
initializeApp(S) == checkNewDay(loadUserData(S))

\* ---------------------------------------------------- js/app.js: actions
\* midnight passes, once or twice
DayPasses ==
    \E days \in 1..2 :
        /\ Today + days <= MaxDays
        /\ now' = (Today + days) * DayLen
        /\ last' = Result("tick", UnknownId, "", TRUE, 0)
        /\ UNCHANGED <<cloud, notificationManager, presented, granted, tasks, ls, timers, nextHandle>>

\* page load: DOMContentLoaded runs initializeApp()
AppStart ==
    /\ ls' = initializeApp(ls)
    /\ last' = Result("initializeApp", UnknownId, "", TRUE, 0)
    /\ UNCHANGED <<cloud, notificationManager, presented, now, granted, tasks, timers, nextHandle>>

AppIds == {ls.tasks[i].id : i \in 1..Len(ls.tasks)} \cup {UnknownId}

\* the tasks the list offers a check box or a skip button for
PendingIds ==
    {ls.tasks[i].id : i \in {j \in 1..Len(ls.tasks) : Pending(ls.tasks[j])}}
        \cup {UnknownId}

\* The handlers below run in a page that was loaded, today or on an earlier
\* day; Date.now() differs between two submissions of the form.
AppAddTask ==
    \E time \in {5, EmptyTime} :
        /\ "momentum_last_activity" \in ls.keys
        /\ Len(ls.tasks) < MaxAppTasks
        /\ now \notin AppIds
        /\ ls' = appAddTask(ls, formTask("A", time))
        /\ last' = Result("appAddTask", now, "", TRUE, 0)
        /\ UNCHANGED <<cloud, notificationManager, presented, now, granted, tasks, timers, nextHandle>>

AppCompleteTask ==
    \E taskId \in PendingIds :
        /\ "momentum_last_activity" \in ls.keys
        /\ LET r == appCompleteTask(ls, taskId)
           IN /\ ls' = r.st
              /\ last' = Result("appCompleteTask", taskId, "", r.ret, 0)
        /\ UNCHANGED <<cloud, notificationManager, presented, now, granted, tasks, timers, nextHandle>>

AppSkipTask ==
    \E taskId \in PendingIds :
        /\ "momentum_last_activity" \in ls.keys
        /\ Len(ls.skip_bank) < MaxSkips
        /\ LET r == appSkipTask(ls, taskId, NotEnoughTime)
           IN /\ ls' = r.st
              /\ last' = Result("appSkipTask", taskId, NotEnoughTime, r.ret, 0)
        /\ UNCHANGED <<cloud, notificationManager, presented, now, granted, tasks, timers, nextHandle>>

\* window.Momentum.updateStreak(taskCompleted); ret: taskCompleted
UpdateStreak ==
    \E taskCompleted \in BOOLEAN :
        /\ "momentum_last_activity" \in ls.keys
        /\ ls' = updateStreak(ls, taskCompleted)
        /\ last' = Result("updateStreak", UnknownId, "", taskCompleted, 0)
        /\ UNCHANGED <<cloud, notificationManager, presented, now, granted, tasks, timers, nextHandle>>

NextApp ==
    \/ DayPasses
    \/ AppStart
    \/ AppAddTask
    \/ AppCompleteTask
    \/ AppSkipTask
    \/ UpdateStreak

\* the dashboard page over several days
SpecApp == Init /\ [][NextApp]_vars

\* the page is loaded on a day before it is used on that day
StartedToday == "momentum_last_activity" \in ls.keys /\ ls.last_activity = Today

NextDaily ==
    \/ DayPasses
    \/ AppStart
    \/ StartedToday /\ AppAddTask
    \/ StartedToday /\ AppCompleteTask
    \/ StartedToday /\ AppSkipTask

\* the dashboard page, opened anew on each day it is used
SpecDaily == Init /\ [][NextDaily]_vars

\* ------------------------------------- js/notifications.js NotificationManager
\* notificationManager.scheduledNotifications is the Map of the manager, a
\* set of [id, timeoutId]; .awaiting holds the ids of the timer callbacks
\* that are at their await.  The id 'task-<id>' of a task's reminder is
\* represented by <id>.  A timer of the manager is [handle, id, due]; a timer
\* of an alarm or of the daily summary carries its callback as well, in
\* kind: "daily" (scheduleDailyAlarm), "loaded" (loadScheduledAlarms),
\* "snooze" (snoozeAlarm) or "summary" (scheduleDailySummary).
\* .scheduledAlarms is the Map of the alarms, .modal tells that #alarm-modal
\* is displayed, .notification that the notification of the alarm is on
\* screen and .setup that the delayed setup of the page has run.
\* Of the awaits of the manager only Notification.requestPermission() waits
\* for something outside the page.

\* parseInt of the strings a notificationTime takes
parseInt(str) ==
    CASE str = "0" -> 0
      [] str = "5" -> 5
      [] OTHER -> NaN

\* parseInt(settings.notificationTime) || 5, settings being momentum_settings
reminderOffset(S) ==
    LET v == IF "momentum_settings" \in S.keys
                  /\ "notificationTime" \in DOMAIN S.settings
             THEN parseInt(S.settings.notificationTime)
             ELSE NaN
    IN IF v = NaN \/ v = 0 THEN notificationOffset ELSE v

\* the state an operation of the manager works on
Manager ==
    [nm |-> notificationManager, ls |-> ls, timers |-> timers,
     nextHandle |-> nextHandle]

CommitManager(N) ==
    /\ notificationManager' = N.nm
    /\ ls' = N.ls
    /\ timers' = N.timers
    /\ nextHandle' = N.nextHandle

saveScheduledNotification(S, id, data) ==
    LET Other(item) == item.id # id
    IN [S EXCEPT
           !.scheduled_notifications =
               Append(SelectSeq(@, Other), Assign([id |-> id], data)),
           !.keys = @ \cup {"momentum_scheduled_notifications"}]

removeScheduledNotification(S, id) ==
    LET Other(item) == item.id # id
    IN [S EXCEPT
           !.scheduled_notifications = SelectSeq(@, Other),
           !.keys = @ \cup {"momentum_scheduled_notifications"}]

cancelScheduledNotification(N, id) ==
    LET entries == {e \in N.nm.scheduledNotifications : e.id = id}
    IN IF entries = {} THEN N
       ELSE [N EXCEPT
                !.timers = {t \in @ : \A e \in entries : t.handle # e.timeoutId},
                !.nm.scheduledNotifications = @ \ entries,
                !.ls = removeScheduledNotification(@, id)]

\* scheduleTaskReminder(task): scheduleTaskNotification(task) of the manager
scheduleTaskReminder(N, task) ==
    IF N.nm.permission # "granted" THEN N
    ELSE
        LET taskDate == taskDateTime(task)
            notificationTime == taskDate - reminderOffset(N.ls)
            c == cancelScheduledNotification(N, task.id)
        IN IF taskDate # NaN /\ notificationTime > now
           THEN [c EXCEPT
                    !.timers = @ \cup {[handle |-> c.nextHandle, id |-> task.id,
                                        due |-> notificationTime]},
                    !.nextHandle = @ + 1,
                    !.nm.scheduledNotifications =
                        @ \cup {[id |-> task.id, timeoutId |-> c.nextHandle]},
                    !.ls = saveScheduledNotification(@, task.id,
                               [taskId |-> task.id,
                                scheduledTime |-> notificationTime,
                                timeout |-> notificationTime - now])]
           ELSE N

\* cancelTaskReminder(taskId)
cancelTaskReminder(N, taskId) == cancelScheduledNotification(N, taskId)

\* checkMissedNotifications(): the items it takes for missed
missedNotifications(S) ==
    LET Past(item) == item.scheduledTime <= now
    IN SelectSeq(S.scheduled_notifications, Past)

checkMissedNotifications(S) ==
    LET Future(item) == ~(item.scheduledTime <= now)
    IN IF Len(missedNotifications(S)) = 0 THEN S
       ELSE [S EXCEPT
                !.scheduled_notifications = SelectSeq(@, Future),
                !.keys = @ \cup {"momentum_scheduled_notifications"}]

\* what the history records of an item: that its reminder was shown or that
\* it was reported missed
Shown(kind, id, scheduledTime) ==
    [kind |-> kind, id |-> id, scheduledTime |-> scheduledTime]

\* ------------------------------------------- NotificationManager: alarms
\* momentum_scheduled_alarms is one object { [id]: data }, written whole
saveScheduledAlarm(S, id, data) ==
    [S EXCEPT !.scheduled_alarms = <<Assign([id |-> id], data)>>,
              !.keys = @ \cup {"momentum_scheduled_alarms"}]

cancelScheduledAlarm(N, id) ==
    LET entries == {e \in N.nm.scheduledAlarms : e.id = id}
    IN IF entries = {} THEN N
       ELSE [N EXCEPT
                !.timers = {t \in @ : \A e \in entries : t.handle # e.timeoutId},
                !.nm.scheduledAlarms = @ \ entries]

\* setTimeout(callback, due - now), the callback named by kind, and
\* map.set(id, timeoutId) on the Map named by field
armTimer(N, field, id, due, kind) ==
    [N EXCEPT
        !.timers = @ \cup {[handle |-> N.nextHandle, id |-> id, due |-> due,
                            kind |-> kind]},
        !.nextHandle = @ + 1,
        !.nm[field] = {e \in @ : e.id # id}
                          \cup {[id |-> id, timeoutId |-> N.nextHandle]}]

\* settings.wakeupTime || '07:00' of momentum_settings, as minute of the day
wakeupTime(S) ==
    IF "momentum_settings" \in S.keys /\ "wakeupTime" \in DOMAIN S.settings
          /\ S.settings.wakeupTime # "07:00"
    THEN NaN
    ELSE DefaultWakeup

\* today at that time of day; tomorrow if that is not after now
nextOccurrence(timeOfDay) ==
    LET today == Today * DayLen + timeOfDay
    IN IF today <= now THEN today + DayLen ELSE today

scheduleDailyAlarm(N) ==
    LET alarmTime == nextOccurrence(wakeupTime(N.ls))
        armed == armTimer(cancelScheduledAlarm(N, alarmId), "scheduledAlarms",
                          alarmId, alarmTime, "daily")
    IN [armed EXCEPT
           !.ls = saveScheduledAlarm(@, alarmId,
                      [scheduledTime |-> alarmTime, timeout |-> alarmTime - now])]

scheduleDailySummary(N) ==
    LET summaryTime == nextOccurrence(SummaryTime)
        armed == armTimer(cancelScheduledNotification(N, summaryId),
                          "scheduledNotifications", summaryId, summaryTime,
                          "summary")
    IN [armed EXCEPT
           !.ls = saveScheduledNotification(@, summaryId,
                      [scheduledTime |-> summaryTime,
                       timeout |-> summaryTime - now])]

\* loadScheduledAlarms(): the entries of momentum_scheduled_alarms from the
\* i-th on
RECURSIVE loadScheduledAlarmsFrom(_, _)
loadScheduledAlarmsFrom(N, i) ==
    IF i > Len(N.ls.scheduled_alarms) THEN N
    ELSE LET data == N.ls.scheduled_alarms[i]
         IN loadScheduledAlarmsFrom(
                IF data.scheduledTime > now
                THEN armTimer(N, "scheduledAlarms", data.id,
                              data.scheduledTime, "loaded")
                ELSE N,
                i + 1)

loadScheduledAlarms(N) == loadScheduledAlarmsFrom(N, 1)

\* triggerWakeupAlarm(): the notification of the alarm is shown, if
\* permission is granted, and #alarm-modal is displayed
triggerWakeupAlarm(N) ==
    [N EXCEPT !.nm.modal = TRUE,
              !.nm.notification = (N.nm.permission = "granted") \/ @]

snoozeAlarm(N) ==
    armTimer([N EXCEPT !.nm.modal = FALSE], "scheduledAlarms", snoozeId,
             now + SnoozeDelay, "snooze")

dismissAlarm(N) == cancelScheduledAlarm([N EXCEPT !.nm.modal = FALSE], snoozeId)

\* ------------------------------------------- NotificationManager: actions
NotifyTask == [id |-> 1, title |-> "A", time |-> 0, date |-> 1]
NotifyTaskLate == [id |-> 2, title |-> "B", time |-> 5, date |-> 1]
NotifyTaskNow == [id |-> 3, title |-> "C", time |-> 5, date |-> 0]

NotifyTasks == {NotifyTask, NotifyTaskLate, NotifyTaskNow}

NotifyIds == {t.id : t \in NotifyTasks}

\* page load: new NotificationManager(); initialize() stops at its await.
\* The timers and the pending callbacks of the old page are gone.
NotifyLoad ==
    /\ notificationManager' = NoManager
    /\ timers' = {}
    /\ nextHandle' = 1
    /\ last' = Result("construct", UnknownId, "", TRUE, 0)
    /\ UNCHANGED <<cloud, now, granted, tasks, ls, presented>>

\* initialize() after its await: permission, then loadScheduledAlarms() and
\* checkMissedNotifications()
NotifyInitialize ==
    /\ notificationManager.permission = "null"
    /\ LET loaded == loadScheduledAlarms(
                         [Manager EXCEPT
                             !.nm.permission =
                                 IF granted THEN "granted" ELSE "denied"])
       IN /\ notificationManager' = loaded.nm
          /\ timers' = loaded.timers
          /\ nextHandle' = loaded.nextHandle
    /\ ls' = checkMissedNotifications(ls)
    /\ presented' = presented \cup
           {Shown("missed", missedNotifications(ls)[i].id,
                  missedNotifications(ls)[i].scheduledTime) :
                i \in 1..Len(missedNotifications(ls))}
    /\ last' = Result("checkMissedNotifications", UnknownId, "", TRUE, 0)
    /\ UNCHANGED <<cloud, now, granted, tasks>>

ScheduleTaskReminder ==
    \E task \in NotifyTasks :
        /\ LET r == scheduleTaskReminder(Manager, task)
           IN /\ r.nextHandle <= MaxReminders + 1
              /\ CommitManager(r)
        /\ last' = Result("scheduleTaskReminder", task.id, "", TRUE, 0)
        /\ UNCHANGED <<cloud, now, granted, tasks, presented>>

CancelTaskReminder ==
    \E taskId \in NotifyIds :
        /\ CommitManager(cancelTaskReminder(Manager, taskId))
        /\ last' = Result("cancelTaskReminder", taskId, "", TRUE, 0)
        /\ UNCHANGED <<cloud, now, granted, tasks, presented>>

\* a timer of the manager comes due: its callback calls showTaskReminder and
\* stops at the await
FireReminder ==
    \E t \in timers :
        /\ now >= t.due
        /\ timers' = timers \ {t}
        /\ notificationManager' =
               [notificationManager EXCEPT !.awaiting = @ \cup {t.id}]
        /\ presented' = presented \cup {Shown("reminder", t.id, t.due)}
        /\ last' = Result("showTaskReminder", t.id, "", TRUE, 0)
        /\ UNCHANGED <<cloud, now, granted, tasks, ls, nextHandle>>

\* the callback after its await: this.scheduledNotifications.delete(id)
ReminderShown ==
    \E id \in notificationManager.awaiting :
        /\ notificationManager' =
               [notificationManager EXCEPT
                   !.awaiting = @ \ {id},
                   !.scheduledNotifications = {e \in @ : e.id # id}]
        /\ last' = Result("reminderShown", id, "", TRUE, 0)
        /\ UNCHANGED <<cloud, now, granted, tasks, ls, timers, nextHandle, presented>>

\* window.setStoredSettings({ notificationTime }): the lead time of the store
SetLead ==
    \E minutes \in {"0", "5"} :
        /\ HasData(ls)
        /\ StoreStep("setSettings", UnknownId,
                     setSettings(ls, [notificationTime |-> minutes], Roomy))
        /\ UNCHANGED <<cloud, notificationManager, presented, now, granted, tasks,
                       timers, nextHandle>>

\* new StorageManager() on a medium with room
StoreSetup ==
    /\ ~HasData(ls)
    /\ LET r == initialize(ls, Roomy)
       IN StoreStep("initialize", UnknownId, [st |-> r.st, ret |-> ~r.threw])
    /\ UNCHANGED <<cloud, notificationManager, presented, now, granted, tasks,
                   timers, nextHandle>>

NextNotify ==
    \/ Tick
    \/ NotifyLoad
    \/ NotifyInitialize
    \/ ScheduleTaskReminder
    \/ CancelTaskReminder
    \/ FireReminder
    \/ ReminderShown
    \/ StoreSetup
    \/ SetLead

\* the reminders of the NotificationManager
SpecNotify == Init /\ [][NextNotify]_vars

\* ---------------------------------------- NotificationManager: alarm actions
\* Time passes up to the next timer that comes due, at most TickStep minutes
\* at once.  A timer of the open page fires when it is due and the delayed
\* setup of a page runs one second after its load, so the clock waits for
\* both; it does not wait for the answer to the permission prompt.
AlarmTick ==
    /\ notificationManager.setup \/ notificationManager = NoManager
    /\ \A t \in timers : t.due > now
    /\ LET next == CHOOSE n \in {now + TickStep} \cup {t.due : t \in timers} :
                       \A m \in {now + TickStep} \cup {t.due : t \in timers} :
                           n <= m
       IN /\ next < (MaxAlarmDays + 1) * DayLen
          /\ now' = next
    /\ last' = Result("tick", UnknownId, "", TRUE, 0)
    /\ UNCHANGED <<cloud, notificationManager, presented, granted, tasks, ls, timers,
                   nextHandle>>

\* DOMContentLoaded + 1000 ms: setupDailyAlarm(); setupDailySummary()
SetupDaily ==
    /\ ~notificationManager.setup
    /\ LET r == scheduleDailySummary(scheduleDailyAlarm(
                    [Manager EXCEPT !.nm.setup = TRUE]))
       IN /\ r.nextHandle <= MaxAlarmHandles + 1
          /\ CommitManager(r)
    /\ last' = Result("setupDailyAlarm", alarmId, "", TRUE, 0)
    /\ UNCHANGED <<cloud, now, granted, tasks, presented>>

\* the timer scheduleDailyAlarm() armed comes due: await
\* triggerWakeupAlarm(), then scheduleDailyAlarm()
FireDaily ==
    \E t \in timers :
        /\ t.kind = "daily"
        /\ now >= t.due
        /\ LET r == scheduleDailyAlarm(triggerWakeupAlarm(
                        [Manager EXCEPT !.timers = @ \ {t}]))
           IN /\ r.nextHandle <= MaxAlarmHandles + 1
              /\ CommitManager(r)
        /\ presented' = presented \cup {Shown("wakeup", t.handle, t.due)}
        /\ last' = Result("triggerWakeupAlarm", t.id, "daily", TRUE, t.handle)
        /\ UNCHANGED <<cloud, now, granted, tasks>>

\* the timer loadScheduledAlarms() armed comes due: for 'daily-wakeup',
\* triggerWakeupAlarm() and scheduleDailyAlarm()
FireLoaded ==
    \E t \in timers :
        /\ t.kind = "loaded"
        /\ now >= t.due
        /\ LET fired == [Manager EXCEPT !.timers = @ \ {t}]
               r == IF t.id = alarmId
                    THEN scheduleDailyAlarm(triggerWakeupAlarm(fired))
                    ELSE fired
           IN /\ r.nextHandle <= MaxAlarmHandles + 1
              /\ CommitManager(r)
        /\ presented' = IF t.id = alarmId
                        THEN presented \cup {Shown("wakeup", t.handle, t.due)}
                        ELSE presented
        /\ last' = Result("triggerWakeupAlarm", t.id, "loaded", TRUE, t.handle)
        /\ UNCHANGED <<cloud, now, granted, tasks>>

\* the timer snoozeAlarm() armed comes due: triggerWakeupAlarm() and
\* this.scheduledAlarms.delete(snoozeId)
FireSnooze ==
    \E t \in timers :
        /\ t.kind = "snooze"
        /\ now >= t.due
        /\ CommitManager(
               [triggerWakeupAlarm([Manager EXCEPT !.timers = @ \ {t}])
                   EXCEPT !.nm.scheduledAlarms = {e \in @ : e.id # snoozeId}])
        /\ presented' = presented \cup {Shown("snooze", t.handle, t.due)}
        /\ last' = Result("triggerWakeupAlarm", t.id, "snooze", TRUE, t.handle)
        /\ UNCHANGED <<cloud, now, granted, tasks>>

\* the timer scheduleDailySummary() armed comes due: await
\* showDailySummary(), then scheduleDailySummary()
FireSummary ==
    \E t \in timers :
        /\ t.kind = "summary"
        /\ now >= t.due
        /\ LET r == scheduleDailySummary([Manager EXCEPT !.timers = @ \ {t}])
           IN /\ r.nextHandle <= MaxAlarmHandles + 1
              /\ CommitManager(r)
        /\ presented' = IF notificationManager.permission = "granted"
                        THEN presented \cup {Shown("summary", t.handle, t.due)}
                        ELSE presented
        /\ last' = Result("showDailySummary", t.id, "summary", TRUE, t.handle)
        /\ UNCHANGED <<cloud, now, granted, tasks>>

\* a click on #snooze-alarm of the displayed modal: snoozeAlarm()
SnoozeAlarm ==
    /\ notificationManager.modal
    /\ LET r == snoozeAlarm(Manager)
       IN /\ r.nextHandle <= MaxAlarmHandles + 1
          /\ CommitManager(r)
    /\ last' = Result("snoozeAlarm", snoozeId, "", TRUE, 0)
    /\ UNCHANGED <<cloud, now, granted, tasks, presented>>

\* a click on #dismiss-alarm of the displayed modal: dismissAlarm()
DismissAlarm ==
    /\ notificationManager.modal
    /\ CommitManager(dismissAlarm(Manager))
    /\ last' = Result("dismissAlarm", snoozeId, "", TRUE, 0)
    /\ UNCHANGED <<cloud, now, granted, tasks, presented>>

\* a click on the notification of the alarm: notification.close() and
\* handleNotificationClick('wakeup-alarm') displays #alarm-modal
NotificationClick ==
    /\ notificationManager.notification
    /\ notificationManager' =
           [notificationManager EXCEPT !.notification = FALSE, !.modal = TRUE]
    /\ last' = Result("handleNotificationClick", alarmId, "", TRUE, 0)
    /\ UNCHANGED <<cloud, now, granted, tasks, ls, timers, nextHandle, presented>>

NextAlarm ==
    \/ AlarmTick
    \/ NotifyLoad
    \/ NotifyInitialize
    \/ SetupDaily
    \/ FireDaily
    \/ FireLoaded
    \/ FireSnooze
    \/ FireSummary
    \/ SnoozeAlarm
    \/ DismissAlarm
    \/ NotificationClick

\* the alarms and the daily summary of the NotificationManager
SpecAlarm == Init /\ [][NextAlarm]_vars

\* ----------------------------- js/notifications.js TaskManager (day planner)
\* The TaskManager of the day planner keeps the tasks of today in this.tasks,
\* for a guest under the key momentum_tasks_<today> and for a signed-in user
\* in the collection users/<userId>/tasks of the remote store.  The clock of
\* its specification stays within one day.  A remote call either succeeds
\* or fails: ok tells which.

\* the state an operation of the planner works on
Planner == [tasks |-> tasks, ls |-> ls, cloud |-> cloud]

CommitPlanner(P) ==
    /\ tasks' = P.tasks
    /\ ls' = P.ls
    /\ cloud' = P.cloud

\* localStorage.setItem(`momentum_tasks_${today}`, JSON.stringify(this.tasks))
saveDayTasks(P) ==
    [P EXCEPT !.ls.day_tasks = P.tasks,
              !.ls.keys = @ \cup {"momentum_tasks_today"}]

\* .doc(id).set(task) and .set(task, { merge: true }) on the remote store
setDoc(docs, task) ==
    IF findIndex(docs, task.id) = 0 THEN Append(docs, task)
    ELSE [docs EXCEPT ![findIndex(docs, task.id)] = Assign(@, task)]

\* a write to users/<userId>/tasks: .doc(this.userId) throws while userId is
\* null, and the write itself may fail; both are caught and logged
remoteWrites(P, ok) == ok /\ P.cloud.userId # Null

\* saveTask(task)
saveTask(P, task, ok) ==
    IF P.cloud.guest THEN saveDayTasks(P)
    ELSE IF remoteWrites(P, ok)
    THEN [P EXCEPT !.cloud.docs = setDoc(@, task)]
    ELSE P

\* addTaskFromForm(): the task the form describes
plannedTask(P, title, mustDo) ==
    [id |-> P.cloud.nextId, time |-> 5, title |-> title, mustDo |-> mustDo,
     completed |-> FALSE, skipped |-> FALSE, skipReason |-> "",
     date |-> Today, createdAt |-> now]

addTaskFromForm(P, title, mustDo, ok) ==
    LET task == plannedTask(P, title, mustDo)
        mustDoCount == Cardinality({i \in 1..Len(P.tasks) :
                                       P.tasks[i].mustDo /\ ~P.tasks[i].completed})
        pushed == [P EXCEPT !.tasks = Append(@, task), !.cloud.nextId = @ + 1]
    IN IF title = "" THEN P
       ELSE IF mustDo /\ mustDoCount >= MustDoLimit THEN P
       ELSE saveTask(pushed, task, ok)

\* completeTask(taskId) of the planner
plannerCompleteTask(P, taskId, ok) ==
    LET i == findIndex(P.tasks, taskId)
        done == [P EXCEPT
                    !.tasks[i] = Assign(@, [completed |-> TRUE,
                                            completedAt |-> now]),
                    !.ls.dailyScore = @ + TaskPoints,
                    !.ls.keys = @ \cup {"momentum_dailyScore"}]
    IN IF i = 0 THEN P ELSE saveTask(done, done.tasks[i], ok)

\* skipTask(taskId, reason) of the planner
plannerSkipTask(P, taskId, reason, ok) ==
    LET i == findIndex(P.tasks, taskId)
        skipped == [P EXCEPT
                       !.tasks[i] = Assign(@, [skipped |-> TRUE,
                                               skipReason |-> reason,
                                               skippedAt |-> now])]
        saved == saveTask(skipped, skipped.tasks[i], ok)
    IN IF i = 0 THEN P
       ELSE [saved EXCEPT
                !.ls.skippedTasks =
                    Append(@, [taskId |-> taskId, title |-> P.tasks[i].title,
                               reason |-> reason, date |-> now]),
                !.ls.keys = @ \cup {"momentum_skippedTasks"}]

\* deleteTask(taskId) of the planner
plannerDeleteTask(P, taskId, ok) ==
    LET Other(t) == t.id # taskId
        filtered == [P EXCEPT !.tasks = SelectSeq(@, Other)]
    IN IF P.cloud.guest THEN saveDayTasks(filtered)
       ELSE IF remoteWrites(P, ok)
       THEN [filtered EXCEPT !.cloud.docs = SelectSeq(@, Other)]
       ELSE filtered

\* the list a loadTasks() of a new page ends with
reloadedTasks(P) ==
    IF P.cloud.guest THEN P.ls.day_tasks ELSE P.cloud.docs

\* ------------------------------------------------- day planner: actions
PlannerIds == 1..MaxPlanned

\* page load: new TaskManager(); loadTasks() is one second away
PlannerOpen ==
    \E guest \in BOOLEAN :
        /\ tasks' = <<>>
        /\ cloud' = [cloud EXCEPT !.guest = guest, !.userId = Null,
                                  !.loading = "scheduled",
                                  !.snapshot = NoCloud.snapshot]
        /\ last' = Result("construct", UnknownId, "", TRUE, 0)
        /\ UNCHANGED <<now, granted, ls, timers, nextHandle,
                       notificationManager, presented>>

\* the delayed callback of initialize(): userId = auth.getUserId() and
\* loadTasks(), for a guest to its end, else up to the await of the query
LoadTasksStart ==
    \E ok \in BOOLEAN :
        /\ cloud.loading = "scheduled"
        /\ tasks' = IF cloud.guest /\ "momentum_tasks_today" \in ls.keys
                    THEN ls.day_tasks
                    ELSE tasks
        /\ cloud' = [cloud EXCEPT
                         !.userId = IF cloud.guest THEN Null ELSE SignedIn,
                         !.loading = IF cloud.guest THEN "done" ELSE "fetching",
                         !.snapshot = [ok |-> ok, docs |-> cloud.docs]]
        /\ last' = Result("loadTasks", UnknownId, "start", ok, 0)
        /\ UNCHANGED <<now, granted, ls, timers, nextHandle,
                       notificationManager, presented>>

\* loadTasks() after the await of the query: the snapshot, or [] on error
LoadTasksDone ==
    /\ cloud.loading = "fetching"
    /\ tasks' = IF cloud.snapshot.ok THEN cloud.snapshot.docs ELSE <<>>
    /\ cloud' = [cloud EXCEPT !.loading = "done"]
    /\ last' = Result("loadTasks", UnknownId, "done", cloud.snapshot.ok, 0)
    /\ UNCHANGED <<now, granted, ls, timers, nextHandle,
                   notificationManager, presented>>

\* submit of #taskForm
AddTaskFromForm ==
    \E title \in {"A", ""}, mustDo \in BOOLEAN, ok \in BOOLEAN :
        /\ cloud.nextId <= MaxPlanned
        /\ CommitPlanner(addTaskFromForm(Planner, title, mustDo, ok))
        /\ last' = Result("addTaskFromForm", cloud.nextId, title, ok, 0)
        /\ UNCHANGED <<now, granted, timers, nextHandle,
                       notificationManager, presented>>

\* a click on the checkbox or on the done button of a task
PlannerCompleteTask ==
    \E taskId \in PlannerIds, ok \in BOOLEAN :
        /\ ls.dailyScore < MaxCompletes * TaskPoints
        /\ CommitPlanner(plannerCompleteTask(Planner, taskId, ok))
        /\ last' = Result("plannerCompleteTask", taskId, "", ok, 0)
        /\ UNCHANGED <<now, granted, timers, nextHandle,
                       notificationManager, presented>>

\* the skip dialog of a pending task, answered
PlannerSkipTask ==
    \E taskId \in PlannerIds, ok \in BOOLEAN :
        /\ \E i \in 1..Len(tasks) :
               tasks[i].id = taskId /\ ~tasks[i].completed /\ ~tasks[i].skipped
        /\ Len(ls.skippedTasks) < MaxSkips
        /\ CommitPlanner(plannerSkipTask(Planner, taskId, NotEnoughTime, ok))
        /\ last' = Result("plannerSkipTask", taskId, NotEnoughTime, ok, 0)
        /\ UNCHANGED <<now, granted, timers, nextHandle,
                       notificationManager, presented>>

\* a click on the delete button of a task, confirmed
PlannerDeleteTask ==
    \E taskId \in PlannerIds, ok \in BOOLEAN :
        /\ \E i \in 1..Len(tasks) : tasks[i].id = taskId
        /\ CommitPlanner(plannerDeleteTask(Planner, taskId, ok))
        /\ last' = Result("plannerDeleteTask", taskId, "", ok, 0)
        /\ UNCHANGED <<now, granted, timers, nextHandle,
                       notificationManager, presented>>

NextPlanner ==
    \/ PlannerOpen
    \/ LoadTasksStart
    \/ LoadTasksDone
    \/ AddTaskFromForm
    \/ PlannerCompleteTask
    \/ PlannerSkipTask
    \/ PlannerDeleteTask

\* the day planner of a guest or of a signed-in user
SpecPlanner == Init /\ [][NextPlanner]_vars

\* ------------------------------------------------------------ properties
\* the fields of a task that the registry's callers see
Stored(task) == [f \in (DOMAIN task) \ {"notificationTimeoutId"} |-> task[f]]

\* C1: every task is in exactly one of pending, completed, skipped: no task
\* is both completed and skipped.
C1_ExactlyOneStatus ==
    \A i \in 1..Len(tasks) : ~(tasks[i].completed /\ tasks[i].skipped)

\* C2: a task that has left pending never becomes pending again, whatever
\* the step (update, reload, complete, skip).
C2_StatusMonotonic ==
    [][\A i \in 1..Len(tasks), j \in 1..Len(tasks') :
           (tasks[i].obj = tasks'[j].obj /\ ~Pending(tasks[i]))
               => ~Pending(tasks'[j])]_vars

\* C3: completing a task that is already completed is rejected and leaves
\* the task, its completedAt included, as it was.
C3_CompleteTwiceRejected ==
    [][LET i == findIndex(tasks, last'.id)
       IN (last'.op = "completeTask" /\ i # 0 /\ tasks[i].completed)
              => (~last'.ret /\ tasks' = tasks /\ ls' = ls)]_vars

\* C4: at most MustDoLimit tasks are at once must-do and not completed.
C4_MustDoCap ==
    Cardinality({i \in 1..Len(tasks) :
                     tasks[i].mustDo /\ ~tasks[i].completed}) <= MustDoLimit

\* C5: addTask appends one pending task; the query for the new task's date
\* returns it exactly once, with only tasks of that date; the tasks that
\* were there are unchanged, and the list is persisted.
C5_CreateThenQuery ==
    [][last'.op = "addTask" =>
          LET n == Len(tasks')
              new == tasks'[n]
              q == getTasksByDate(tasks', new.date)
          IN /\ n = Len(tasks) + 1
             /\ SubSeq(tasks', 1, n - 1) = tasks
             /\ Pending(new)
             /\ Cardinality({k \in 1..Len(q) : q[k].obj = new.obj}) = 1
             /\ \A k \in 1..Len(q) : q[k].date = new.date
             /\ Len(q) = 1 + Cardinality({k \in 1..Len(tasks) :
                                              tasks[k].date = new.date})
             /\ ls'.tasks = tasks']_vars

\* C5 happens: a task was added next to a task of another date that is
\* no longer pending.
C5_Witness ==
    /\ last.op = "addTask"
    /\ Len(tasks) = 2
    /\ tasks[1].date # tasks[2].date
    /\ ~Pending(tasks[1])
    /\ Pending(tasks[2])

\* C6: skipTask on a pending task sets skipped and the reason given, and
\* appends exactly one skip-bank entry carrying the task's id and that
\* reason; the entries that were there are unchanged.
C6_SkipRecordsEntry ==
    [][LET i == findIndex(tasks, last'.id)
           m == Len(ls.skip_bank)
       IN (last'.op = "skipTask" /\ i # 0 /\ Pending(tasks[i])) =>
              /\ last'.ret
              /\ tasks'[i].skipped
              /\ ~tasks'[i].completed
              /\ tasks'[i].skipReason = last'.reason
              /\ Len(ls'.skip_bank) = m + 1
              /\ SubSeq(ls'.skip_bank, 1, m) = ls.skip_bank
              /\ ls'.skip_bank[m + 1].taskId = tasks[i].id
              /\ ls'.skip_bank[m + 1].reason = last'.reason]_vars

\* C6 happens: a second task was skipped after an entry for another task
\* was banked.
C6_Witness ==
    /\ last.op = "skipTask"
    /\ last.ret
    /\ Len(ls.skip_bank) = 2
    /\ ls.skip_bank[1].taskId # last.id
    /\ ls.skip_bank[2].taskId = last.id
    /\ ls.skip_bank[2].reason = NotEnoughTime
    /\ \E i \in 1..Len(tasks) :
           /\ tasks[i].id = last.id
           /\ tasks[i].skipped
           /\ ~tasks[i].completed
           /\ tasks[i].skipReason = NotEnoughTime

\* C7: skipTask on a task that is completed or skipped, on an id no task
\* carries, or with an empty reason is rejected and changes nothing.
C7_SkipRejected ==
    [][LET i == findIndex(tasks, last'.id)
       IN (last'.op = "skipTask"
              /\ (i = 0 \/ ~Pending(tasks[i]) \/ last'.reason = ""))
              => (~last'.ret /\ tasks' = tasks /\ ls' = ls)]_vars

\* C8: after completeTask, skipTask or deleteTask on a task, no reminder
\* timer for that task is armed.
C8_NoTimerAfterTerminal ==
    [][LET i == findIndex(tasks, last'.id)
       IN (last'.op \in {"completeTask", "skipTask", "deleteTask"} /\ i # 0)
              => \A t \in timers' : t.obj # tasks[i].obj]_vars

\* C9: deleteTask of an id in the list returns true, removes that one task,
\* leaves the others as they were and persists the list; deleteTask of an
\* id not in the list returns false and leaves list and storage unchanged.
C9_DeleteExact ==
    [][last'.op = "deleteTask" =>
          LET i == findIndex(tasks, last'.id)
          IN IF i # 0
             THEN /\ last'.ret
                  /\ Len(tasks') = Len(tasks) - 1
                  /\ \A k \in 1..Len(tasks') :
                         Stored(tasks'[k]) = Stored(RemoveAt(tasks, i)[k])
                  /\ ls'.tasks = tasks'
                  /\ ls'.skip_bank = ls.skip_bank
             ELSE /\ ~last'.ret
                  /\ tasks' = tasks
                  /\ ls' = ls]_vars

\* C9 happens: one of two tasks was deleted and the one that stays is no
\* longer pending.
C9_Witness ==
    /\ last.op = "deleteTask"
    /\ last.ret
    /\ Len(tasks) = 1
    /\ ~Pending(tasks[1])
    /\ ls.tasks = tasks

\* C10: create and update validate: every task of the list passes
\* validateTask.
C10_TasksValid ==
    \A i \in 1..Len(tasks) : validateTask(tasks[i])

\* C11: task ids are unique and immutable: no two tasks of the list share
\* an id, and no step changes the id of a task that stays in the list.
C11_IdsUniqueImmutable ==
    [][/\ \A i, j \in 1..Len(tasks') :
              i # j => tasks'[i].id # tasks'[j].id
       /\ \A i \in 1..Len(tasks), j \in 1..Len(tasks') :
              tasks[i].obj = tasks'[j].obj => tasks[i].id = tasks'[j].id]_vars

\* C12: a load of a store that has its document and no legacy key changes
\* nothing; after a load that did not throw no legacy key is left, and
\* migrating or loading again right away changes nothing.
C12_MigrationIdempotent ==
    [][last'.op = "initialize" =>
          /\ (ls.keys \cap LegacyKeys = {} /\ HasData(ls)) => ls' = ls
          /\ last'.ret =>
                 /\ ls'.keys \cap LegacyKeys = {}
                 /\ \A cap \in Capacities :
                        /\ migrateFromLegacyStorage(ls', cap)
                               = [st |-> ls', threw |-> FALSE]
                        /\ initialize(ls', cap) = [st |-> ls', threw |-> FALSE]]_vars

\* C12 happens: a load has migrated the task and the skip that TaskManager
\* stored under the legacy keys.
C12_Witness ==
    /\ last.op = "initialize"
    /\ last.ret
    /\ HasData(ls)
    /\ Len(ls.data.tasks) = 1
    /\ ls.data.tasks[1].skipped
    /\ ls.keys \cap LegacyKeys = {}

\* C13: a load that migrates carries the legacy values into the document:
\* its tasks, skip bank, streak and settings are those of the legacy keys.
C13_MigrationCarriesValues ==
    [][(last'.op = "initialize" /\ last'.ret /\ ls.keys \cap LegacyKeys # {}) =>
          /\ ls'.data.tasks = ls.tasks
          /\ ls'.data.skipBank = ls.skip_bank
          /\ ls'.data.streak = ls.streak
          /\ "momentum_settings" \in ls.keys => ls'.data.settings = ls.settings]_vars

\* C14: migration is one-time: a load of a store that already has its
\* document leaves the document's tasks, reflections and statistics alone.
C14_MigrationOnce ==
    [][(last'.op = "initialize" /\ HasData(ls)) =>
          /\ ls'.data.tasks = ls.data.tasks
          /\ ls'.data.reflections = ls.data.reflections
          /\ ls'.data.statistics = ls.data.statistics]_vars

\* C15: a load never throws and leaves a document of valid structure,
\* whatever the storage holds and whether or not the medium takes the write.
C15_LoadNeverThrows ==
    [][last'.op = "initialize" =>
          /\ last'.ret
          /\ HasData(ls')
          /\ ls'.data.version = version
          /\ ls'.data.broken = {}]_vars

\* C16: a store operation that reports failure has left the persisted
\* document, and all of localStorage, exactly as it was.
C16_WriteFailureNoChange ==
    [][(last'.op \in {"storeAddTask", "storeUpdateTask", "storeDeleteTask",
                      "setSettings"}
           /\ ~last'.ret) => ls' = ls]_vars

\* C17: after a load and after an import the persisted lists hold valid
\* records only.
C17_WorkingSetValid ==
    [][(last'.op \in {"initialize", "importData"} /\ last'.ret) =>
          /\ \A i \in 1..Len(getTasks(ls')) : validateTask(getTasks(ls')[i])
          /\ \A i \in 1..Len(ls'.data.skipBank) :
                 validateSkipEntry(ls'.data.skipBank[i])
          /\ \A i \in 1..Len(ls'.data.reflections) :
                 validateReflection(ls'.data.reflections[i])]_vars

\* C18: a task that validation accepted is stored with a duration in
\* MinDuration..MaxDuration.
C18_DurationInRange ==
    [][(last'.op = "storeAddTask" /\ last'.ret) =>
          LET stored == getTasks(ls')
          IN stored[Len(stored)].duration \in MinDuration..MaxDuration]_vars

\* C19: the document holds at most one reflection per date.
C19_OneReflectionPerDate ==
    HasData(ls) =>
        \A i, j \in 1..Len(ls.data.reflections) :
            i # j => ls.data.reflections[i].date # ls.data.reflections[j].date

StatisticsConsistent(S) ==
    LET data == getFullData(S)
        Completed(t) == t.completed
        Skipped(t) == t.skipped
    IN /\ data.statistics.totalTasksCreated = Len(data.tasks)
       /\ data.statistics.totalTasksCompleted = Len(SelectSeq(data.tasks, Completed))
       /\ data.statistics.totalTasksSkipped = Len(SelectSeq(data.tasks, Skipped))
       /\ data.statistics.skipReasons = skipReasonsOf(data.skipBank)

\* C21: after a task-mutating operation of the store (add, update, delete,
\* setTasks), an import or a compression pass that succeeded, the totals of
\* the statistics equal the counts of the persisted tasks and the
\* skip-reason table is the histogram of the persisted skip bank.
C21_StatisticsConsistent ==
    [][(/\ last'.op \in {"storeAddTask", "storeUpdateTask", "storeDeleteTask",
                         "setTasks", "importData", "compressData"}
        /\ last'.ret)
           => StatisticsConsistent(ls')]_vars

\* C22: the completion rate of the statistics is completed / total of the
\* persisted tasks, and is 0 when the list is empty, also after the last
\* task of a list was deleted.
C22_CompletionRate ==
    [][(last'.op \in {"storeAddTask", "storeDeleteTask"} /\ last'.ret)
           => LET data == getFullData(ls')
                  rate == data.statistics.averageCompletionRate
                  Completed(t) == t.completed
                  total == Len(data.tasks)
              IN IF total = 0 THEN rate.num = 0
                 ELSE rate.num * total
                          = Len(SelectSeq(data.tasks, Completed)) * 100 * rate.den]_vars

\* C23: statistics.longestStreak is a high-water mark of the streak: in
\* every state of the document longestStreak >= streak, and setStreak never
\* lowers longestStreak.
C23_LongestStreakHighWater ==
    [][/\ HasData(ls') =>
              getFullData(ls').statistics.longestStreak >= getFullData(ls').streak
       /\ (last'.op = "setStreak" /\ HasData(ls)) =>
              getFullData(ls').statistics.longestStreak
                  >= getFullData(ls).statistics.longestStreak]_vars

\* C24: updateStreak(taskCompleted) with a last activity date: on the same
\* day the streak is unchanged; exactly one day later it grows by one only
\* for a completion; more than one day later it becomes 1 for a completion
\* and 0 otherwise; the last activity date becomes today.
C24_StreakUpdate ==
    [][(/\ last'.op \in {"updateStreak", "appCompleteTask"}
        /\ last'.ret \/ last'.op = "updateStreak"
        /\ "momentum_last_activity" \in ls.keys)
           => LET taskCompleted == last'.ret
                  gain == IF taskCompleted THEN 1 ELSE 0
                  days == Today - ls.last_activity
              IN /\ ls'.last_activity = Today
                 /\ ls'.streak = IF days = 0 THEN ls.streak
                                 ELSE IF days = 1 THEN ls.streak + gain
                                 ELSE gain]_vars

\* a task of momentum_tasks was completed on that day
CompletedOn(day) ==
    \E i \in 1..Len(ls.tasks) :
        /\ ls.tasks[i].completed
        /\ "completedAt" \in DOMAIN ls.tasks[i]
        /\ ls.tasks[i].completedAt \div DayLen = day

\* the number of consecutive days up to today with a completion on each
RECURSIVE DaysInARow(_)
DaysInARow(day) ==
    IF day < 0 \/ ~CompletedOn(day) THEN 0 ELSE 1 + DaysInARow(day - 1)

\* C25: when the page is started on each of N consecutive days and a task
\* is completed on each of them, the streak after the completion on day N
\* is N.
C25_StreakCountsDays ==
    (last.op = "appCompleteTask" /\ last.ret) => ls.streak = DaysInARow(Today)

\* C26: after the page load of a new day, the first operation of that day,
\* no pending task has a date earlier than today, however many days have
\* passed, and the last activity date is today.
C26_RolloverCarriesPending ==
    [][last'.op = "initializeApp"
           => /\ \A i \in 1..Len(ls'.tasks) :
                     Pending(ls'.tasks[i]) => ls'.tasks[i].date >= Today
              /\ ls'.last_activity = Today]_vars

\* C27: the rollover of a page load changes nothing but the date of the
\* pending tasks it carries: no task is created or removed, every task keeps
\* its id, title, status and time, completed and skipped tasks keep their
\* date, and a page load on the day of the last activity changes no task.
C27_RolloverFrame ==
    [][last'.op = "initializeApp"
           => /\ Len(ls'.tasks) = Len(ls.tasks)
              /\ \A i \in 1..Len(ls.tasks) :
                     /\ ls'.tasks[i].id = ls.tasks[i].id
                     /\ ls'.tasks[i].title = ls.tasks[i].title
                     /\ ls'.tasks[i].completed = ls.tasks[i].completed
                     /\ ls'.tasks[i].skipped = ls.tasks[i].skipped
                     /\ ls'.tasks[i].time = ls.tasks[i].time
                     /\ ~Pending(ls.tasks[i]) => ls'.tasks[i].date = ls.tasks[i].date
              /\ StartedToday => ls'.tasks = ls.tasks]_vars

\* the lead time that is configured: the notificationTime of the store's
\* settings, else that of momentum_settings, else the default
ConfiguredLead(S) ==
    IF HasData(S) /\ "notificationTime" \in DOMAIN getFullData(S).settings
    THEN parseInt(getFullData(S).settings.notificationTime)
    ELSE IF "momentum_settings" \in S.keys
              /\ "notificationTime" \in DOMAIN S.settings
    THEN parseInt(S.settings.notificationTime)
    ELSE notificationOffset

\* C28: with permission granted, scheduleTaskReminder(task) takes T = the
\* task's date and time minus the configured lead minutes (0 included, the
\* store's settings included); if T is not in the future nothing is armed or
\* persisted, otherwise exactly one timer, due at T, is armed for the task
\* and exactly one record task-<id>, with scheduledTime T, is persisted.
C28_ScheduleAtLeadTime ==
    [][(last'.op = "scheduleTaskReminder"
            /\ notificationManager.permission = "granted")
           => LET task == CHOOSE t \in NotifyTasks : t.id = last'.id
                  T == taskDateTime(task) - ConfiguredLead(ls)
                  armed == {t \in timers' : t.id = task.id}
                  records == {i \in 1..Len(ls'.scheduled_notifications) :
                                 ls'.scheduled_notifications[i].id = task.id}
              IN IF T > now
                 THEN /\ Cardinality(armed) = 1
                      /\ \A t \in armed : t.due = T
                      /\ Cardinality(records) = 1
                      /\ \A i \in records :
                             ls'.scheduled_notifications[i].scheduledTime = T
                 ELSE /\ timers' = timers
                      /\ ls'.scheduled_notifications
                             = ls.scheduled_notifications]_vars

\* C29: an item whose timer fired is removed from the persisted table and
\* from the Map of the manager, so that no later page load reports it as
\* missed: no item is both shown as a reminder and reported missed.
C29_FiredNeverMissed ==
    \A p \in presented :
        p.kind = "reminder" => Shown("missed", p.id, p.scheduledTime) \notin presented

\* an item of that id is scheduled: a timer is armed for it, the Map holds
\* it or a record of it is persisted
Scheduled(id) ==
    \/ \E t \in timers : t.id = id
    \/ \E e \in notificationManager.scheduledNotifications : e.id = id
    \/ \E i \in 1..Len(ls.scheduled_notifications) :
           ls.scheduled_notifications[i].id = id

\* C30: after cancelTaskReminder(id) no timer is armed and no record is
\* persisted for the id, whether this page armed it or an earlier page
\* persisted it; a cancel of an id that is not scheduled changes nothing;
\* and a reminder is shown only for an item the Map and the persisted table
\* still hold, so a fire and a cancel present the item at most once.
C30_CancelComplete ==
    [][/\ last'.op = "cancelTaskReminder"
           => /\ \A t \in timers' : t.id # last'.id
              /\ \A i \in 1..Len(ls'.scheduled_notifications) :
                     ls'.scheduled_notifications[i].id # last'.id
              /\ ~Scheduled(last'.id)
                     => /\ timers' = timers
                        /\ ls' = ls
                        /\ notificationManager' = notificationManager
       /\ last'.op = "showTaskReminder"
           => /\ \E e \in notificationManager.scheduledNotifications :
                     e.id = last'.id
              /\ \E i \in 1..Len(ls.scheduled_notifications) :
                     ls.scheduled_notifications[i].id = last'.id]_vars

\* C31: on page load every persisted record whose time is already past is
\* removed from the persisted table, it is reported as missed at most once
\* (it was not reported by an earlier load), no timer is armed for it, and an
\* item that is reported as missed was never shown as a regular reminder.
C31_MissedRecovery ==
    [][last'.op = "checkMissedNotifications"
           => LET missed == missedNotifications(ls)
              IN /\ \A i \in 1..Len(ls'.scheduled_notifications) :
                        ls'.scheduled_notifications[i].scheduledTime > now
                 /\ \A i \in 1..Len(missed) :
                        /\ Shown("missed", missed[i].id, missed[i].scheduledTime)
                               \notin presented
                        /\ Shown("reminder", missed[i].id,
                                 missed[i].scheduledTime) \notin presented'
                        /\ \A t \in timers' : t.id # missed[i].id]_vars

\* C32: on page load every persisted record whose time is still in the
\* future is re-armed: after initialize() a timer of the page is armed for
\* the item, due at the persisted time.
C32_FutureRearmed ==
    [][last'.op = "checkMissedNotifications"
           => \A i \in 1..Len(ls.scheduled_notifications) :
                  ls.scheduled_notifications[i].scheduledTime > now
                      => \E t \in timers' :
                             /\ t.id = ls.scheduled_notifications[i].id
                             /\ t.due = ls.scheduled_notifications[i].scheduledTime]_vars

\* C33: the daily alarm is self-perpetuating: after every fire of a
\* 'daily-wakeup' timer exactly one 'daily-wakeup' timer is pending, due
\* strictly in the future, and the alarm fires once per day: no other fire of
\* a 'daily-wakeup' timer presented the alarm on the same day.
C33_DailyAlarmOncePerDay ==
    [][(last'.op = "triggerWakeupAlarm" /\ last'.id = alarmId)
           => /\ Cardinality({t \in timers' : t.id = alarmId}) = 1
              /\ \A t \in timers' : t.id = alarmId => t.due > now
              /\ \A p \in presented :
                     p.kind = "wakeup"
                         => p.scheduledTime \div DayLen # Today]_vars

\* C35: at most one snooze timer is pending at any time, and right after
\* dismissAlarm() no snooze timer is pending.
C35_OneSnoozeTimer ==
    /\ Cardinality({t \in timers : t.id = snoozeId}) <= 1
    /\ last.op = "dismissAlarm" => \A t \in timers : t.id # snoozeId

\* C37: for every scheduler id at most one timer is armed, and every armed
\* timer is the one the Map of the manager records for its id, so that a
\* cancel of the id reaches it.
C37_ArmedTimersRecorded ==
    /\ \A t, u \in timers : t.id = u.id => t = u
    /\ \A t \in timers :
           [id |-> t.id, timeoutId |-> t.handle]
               \in IF t.id = summaryId
                   THEN notificationManager.scheduledNotifications
                   ELSE notificationManager.scheduledAlarms

\* a task the retention policy may evict: completed, not skipped, and
\* completed more than CompressDays days ago
Evictable(task) ==
    /\ task.completed
    /\ ~task.skipped
    /\ "completedAt" \in DOMAIN task
    /\ task.completedAt < now - CompressDays * DayLen

NotEvictable(task) == ~Evictable(task)

\* C36: the storage-usage check of a page load removes a task only when the
\* estimated usage exceeds 90%, and then only tasks that were completed more
\* than 30 days ago: every other task stays in the list as it was, in its
\* order, and the skip bank, the reflections and the settings are unchanged.
C36_CompressionFrame ==
    [][last'.op = "storageCheck"
           => /\ usagePercent(ls) <= 90 => ls' = ls
              /\ SelectSeq(getTasks(ls'), NotEvictable)
                     = SelectSeq(getTasks(ls), NotEvictable)
              /\ \A i \in 1..Len(getTasks(ls')) :
                     \E j \in 1..Len(getTasks(ls)) :
                         getTasks(ls')[i] = getTasks(ls)[j]
              /\ getFullData(ls').skipBank = getFullData(ls).skipBank
              /\ getFullData(ls').reflections = getFullData(ls).reflections
              /\ getFullData(ls').settings = getFullData(ls).settings]_vars

\* a usage check removed an old completed task and kept a task beside it,
\* with a skip bank and reflections in the document
C36_Witness ==
    /\ last.op = "storageCheck"
    /\ last.obj > 0
    /\ Len(getTasks(ls)) > 0
    /\ Len(getFullData(ls).skipBank) > 0
    /\ Len(getFullData(ls).reflections) > 0

\* the tasks of a list that carry the id
TasksOf(list, taskId) == {list[i] : i \in {j \in 1..Len(list) : list[j].id = taskId}}

\* C34: an add, complete, skip or delete of a signed-in user whose remote
\* write fails still takes effect in the task list of the page, and the
\* effect is still there after a reload: the list a new page loads holds
\* the task as the page left it.
C34_RemoteFailureKeepsLocalEffect ==
    [][(/\ last'.op \in {"addTaskFromForm", "plannerCompleteTask",
                         "plannerSkipTask", "plannerDeleteTask"}
        /\ ~cloud.guest
        /\ ~remoteWrites(Planner, last'.ret))
           => LET after == [tasks |-> tasks', ls |-> ls', cloud |-> cloud']
                  mine == TasksOf(tasks', last'.id)
              IN /\ (last'.op = "addTaskFromForm" /\ last'.reason # "")
                        => mine # {}
                 /\ last'.op = "plannerCompleteTask"
                        => \A t \in mine : t.completed
                 /\ last'.op = "plannerSkipTask" => \A t \in mine : t.skipped
                 /\ last'.op = "plannerDeleteTask" => mine = {}
                 /\ TasksOf(reloadedTasks(after), last'.id) = mine]_vars

\* C38: when the delayed loadTasks() completes, every task that was in the
\* list of the page before, that is every task the user added on this page
\* and did not delete, is still in the list.
C38_LoadKeepsAddedTasks ==
    [][(last'.op = "loadTasks" /\ cloud'.loading = "done")
           => \A i \in 1..Len(tasks) : TasksOf(tasks', tasks[i].id) # {}]_vars

\* C39: completeTask(id) adds the points of a task to the daily score when
\* the task makes the transition from pending to completed, and leaves the
\* score alone otherwise (the task is completed already, is skipped, or no
\* task carries the id).
C39_ScoreOncePerTask ==
    [][last'.op = "plannerCompleteTask"
           => LET i == findIndex(tasks, last'.id)
                  pending == IF i = 0 THEN FALSE
                             ELSE ~tasks[i].completed /\ ~tasks[i].skipped
              IN ls'.dailyScore
                     = ls.dailyScore + (IF pending THEN TaskPoints ELSE 0)]_vars
====
